---------------------------- MODULE Spec2Model ----------------------------
(***************************************************************************)
(* Model of sycl::detail::KernelProgramCache                               *)
(* (src/sycl/source/detail/kernel_program_cache.hpp): the program cache,   *)
(* the kernels-per-program cache, the kernel fast cache, the per-entry     *)
(* BuildResult with its mutex and condition variable, and the threads of   *)
(* the runtime that go through getOrInsertProgram, build or                *)
(* waitUntilBuilt.                                                         *)
(*                                                                         *)
(* The header holds the cache; the code that drives it (get-or-insert,     *)
(* then build and publish for the winner, waitUntilBuilt for the others)   *)
(* lives in the program manager, which is not among the sources.  Those    *)
(* steps (build_program, publish_success, publish_failure) follow the      *)
(* specification's sections 4.1, 4.2 and 6.                                *)
(***************************************************************************)
EXTENDS Integers, Sequences, FiniteSets, Bags, TLC

(***************************************************************************)
(* Bounds of the model.                                                    *)
(***************************************************************************)
NumThreads == 3     \* threads of the runtime's dispatch layer
MaxHandle == 2      \* native handles the backend dispatcher may hand out
NumResetThreads == 2 \* threads running beside reset() or a second publish
MaxResets == 1      \* calls of reset() in one run (SpecReset)
NumFastThreads == 3 \* threads on the kernel fast cache (SpecFast)
NumKernelThreads == 3 \* threads on the kernels-per-program cache (SpecKernel)
MaxWarningLevel == 2 \* largest SYCL_RT_WARNING_LEVEL tried (SpecPlugin)
NumPlatforms == 3   \* platforms a plugin may be asked about (SpecPlatforms)
MaxDeviceId == 2    \* largest device id given to setLastDeviceId (SpecPlatforms)

Threads == 1..NumThreads
ResetThreads == 1..NumResetThreads
Handles == 1..MaxHandle
FastThreads == 1..NumFastThreads
KernelThreads == 1..NumKernelThreads
Platforms == 1..NumPlatforms
DeviceIds == 0..MaxDeviceId

(***************************************************************************)
(* Data.                                                                   *)
(***************************************************************************)
\* enum BuildState { BS_InProgress, BS_Done, BS_Failed }
BS_InProgress == "BS_InProgress"
BS_Done == "BS_Done"
BS_Failed == "BS_Failed"
BuildState == {BS_InProgress, BS_Done, BS_Failed}

\* nullptr, for BuildResult::Ptr and for the fast cache's absent result
nullptr == "nullptr"
\* a default-constructed T (BuildResult::Val before the build)
NoVal == 0
\* no thread owns the mutex
Unlocked == 0

\* Error messages and codes a failed build may carry (BuildError::Msg, Code).
Messages == {"", "bad SPIR-V"}
Codes == {0, 7}

\* struct BuildError { std::string Msg; pi_int32 Code; }
BuildError == [Msg : Messages, Code : Codes]

\* bool isFilledIn() const { return !Msg.empty(); }
isFilledIn(Error) == Error.Msg # ""

\* ProgramCacheKeyT: ((serialized module, module identity), (device, options))
ProgramKeys ==
    { << <<"spv", 1>>, <<"D0", "">> >>,
      << <<"spv", 1>>, <<"D0", "-g">> >> }

\* Mutant of CommonKeyOf: CacheKey.second.second (the options) taken for the
\* device.
CommonKeyOfOptions(CacheKey) == <<CacheKey[1][2], CacheKey[2][2]>>

\* CommonProgramKeyT: (module identity, device), lines 118-119
CommonKeyOf(CacheKey) == <<CacheKey[1][2], CacheKey[2][1]>>


\* Kernel names, and the native kernel handles the dispatcher may hand out
KernelNames == {"k1"}
KernelHandles == {"kernA", "kernB"}

\* KernelFastCacheKeyT: (serialized module, OS module handle, device, options,
\* kernel name), lines 90-92; one per program key and kernel name
FastKeyOf(K, Name) == <<K[1][1], K[1][2], K[2][1], K[2][2], Name>>
FastKeys == {FastKeyOf(K, N) : K \in ProgramKeys, N \in KernelNames}

\* KernelFastCacheValT: (kernel, dispatch mutex, arg mask, program), lines 93-94
FastVal(Kernel, Program) == <<Kernel, "&mutex", "&argmask", Program>>

\* The values the runtime may save in the fast cache
FastVals == {FastVal(Kern, P) : Kern \in KernelHandles, P \in Handles}

\* std::make_tuple(nullptr, nullptr, nullptr, nullptr), line 172
AbsentFastVal == <<nullptr, nullptr, nullptr, nullptr>>

\* What one call ends with: a native handle, a raised failure (Msg, Code),
\* or the null pointer waitUntilBuilt returns (line 158) when it does not throw.
NoRet == [kind |-> "none", h |-> NoVal, Msg |-> "", Code |-> 0]
RetHandle(h) == [kind |-> "handle", h |-> h, Msg |-> "", Code |-> 0]
RetFailed(Msg, Code) == [kind |-> "failed", h |-> NoVal, Msg |-> Msg, Code |-> Code]
RetNull == [kind |-> "null", h |-> NoVal, Msg |-> "", Code |-> 0]

\* CacheInvariantViolation, the fatal report of a second publish_*
RetViolation == [kind |-> "CacheInvariantViolation", h |-> NoVal, Msg |-> "", Code |-> 0]

\* build_program(key) -> Result<native_program_handle, (message, code)>
BuildOutcomes ==
    {RetHandle(h) : h \in Handles}
        \cup {RetFailed(m, c) : m \in Messages, c \in Codes}

\* BuildResult::Ptr after publish_success: the address of the entry's own Val
AddrOfVal == "&Val"

\* A BuildResult* held by a thread: the map node's key and the node's identity
\* (nodes made after a reset() are other objects than the ones it destroyed).
NoBR == [key |-> <<>>, id |-> -1]

\* RT::PiResult: PI_SUCCESS, the plugin-specific error, and other errors
PI_SUCCESS == "PI_SUCCESS"
PI_ERROR_PLUGIN_SPECIFIC_ERROR == "PI_ERROR_PLUGIN_SPECIFIC_ERROR"
PiResults ==
    {PI_SUCCESS, PI_ERROR_PLUGIN_SPECIFIC_ERROR,
     "PI_ERROR_INVALID_VALUE", "PI_ERROR_OUT_OF_RESOURCES"}

\* What piPluginGetLastError may give: its result and the message it sets
PluginMessages == {"slow path taken", "device lost"}
LastErrors == [result : PiResults, message : PluginMessages]

\* SYCL_RT_WARNING_LEVEL
WarningLevels == 0..MaxWarningLevel

\* The two checkPiResult templates: <Exception> and <errc>
Variants == {"Exception", "errc"}

(***************************************************************************)
(* State.                                                                  *)
(***************************************************************************)
VARIABLES
    MProgramCacheMutex,       \* owner of the program cache's mutex, or Unlocked
    MCachedPrograms,          \* ProgramCache: [Cache, KeyMap]
    MKernelsPerProgramCache,  \* KernelCacheT: program -> (kernel name -> BuildResult)
    MKernelFastCache,         \* KernelFastCacheT: fast key -> value tuple
    pc,                       \* each thread's position
    CacheKey,                 \* each thread's argument of get_or_build_program
    BuildResultPtr,           \* each thread's BuildResult* (Inserted.first)
    InsertionTookPlace,       \* each thread's was_freshly_inserted (Inserted.second)
    ret,                      \* the winner's build result, then every call's outcome
    buildCalls,               \* the dispatcher's count of build_program calls per key
    epoch,                    \* number of reset() calls so far
    MKernelFastCacheMutex,    \* owner of the fast cache's mutex, or Unlocked
    fastpc,                   \* each fast-cache thread's position
    FastCacheKey,             \* each fast-cache thread's CacheKey argument
    FastCacheVal,             \* saveKernel's CacheVal argument
    FastRet,                  \* what tryToGetKernelFast returned
    MKernelsPerProgramCacheMutex, \* owner of the kernel cache's mutex, or Unlocked
    kernelpc,                 \* each kernel-cache thread's position
    KProgram,                 \* getOrInsertKernel's Program argument
    KName,                    \* getOrInsertKernel's KernelName argument
    KernelResultPtr,          \* the BuildResult* getOrInsertKernel returned
    KernelInserted,           \* the bool getOrInsertKernel returned
    kernelret,                \* what get_or_build_kernel ended with
    pluginpc,                 \* position of the checkPiResult call
    Variant,                  \* which checkPiResult template is called
    pi_result,                \* checkPiResult's argument (it is reassigned)
    LastError,                \* what piPluginGetLastError gives when called
    WarningLevel,             \* SYCLConfig<SYCL_RT_WARNING_LEVEL>::get()
    message,                  \* checkPiResult's local char *message
    clog,                     \* what has been written to std::clog
    Thrown,                   \* the exception checkPiResult threw, if any
    PiPlatforms,              \* std::vector<RT::PiPlatform> of the plugin
    LastDeviceIds,            \* std::vector<int>: last device id of each platform
    platformCall              \* the last call on the two vectors and what it returned

\* The fast-cache threads' state
fastVars == <<MKernelFastCacheMutex, fastpc, FastCacheKey, FastCacheVal, FastRet>>

\* The kernel-cache threads' state
kernelVars == <<MKernelsPerProgramCacheMutex, kernelpc, KProgram, KName,
                KernelResultPtr, KernelInserted, kernelret>>

\* The state of a checkPiResult call
\* The plugin's platform table
platformVars == <<PiPlatforms, LastDeviceIds, platformCall>>

pluginVars == <<pluginpc, Variant, pi_result, LastError, WarningLevel, message,
                clog, Thrown, platformVars>>

vars == <<MProgramCacheMutex, MCachedPrograms, MKernelsPerProgramCache,
          MKernelFastCache, pc, CacheKey, BuildResultPtr, InsertionTookPlace,
          ret, buildCalls, epoch, fastVars, pluginVars, kernelVars>>

cacheVars == <<MKernelsPerProgramCache, MKernelFastCache, epoch, fastVars, pluginVars,
               kernelVars>>

\* The state of the program cache and of the threads that go through it
programVars == <<MProgramCacheMutex, MCachedPrograms, MKernelsPerProgramCache, epoch,
                 pc, CacheKey, BuildResultPtr, InsertionTookPlace, ret, buildCalls>>

\* The program cache and its threads
programThreadVars == <<MProgramCacheMutex, MCachedPrograms, epoch, pc, CacheKey,
                       BuildResultPtr, InsertionTookPlace, ret, buildCalls>>

\* Mutant of NewBuildResult: State initialised to BS_Done instead of S.
NewBuildResultDone(P, S, id) ==
    [Ptr |-> P, Val |-> NoVal, State |-> BS_Done,
     Error |-> [Msg |-> "", Code |-> 0],
     MBuildResultMutex |-> Unlocked, id |-> id]

\* Mutant of NewBuildResult: Error left with a message by the constructor.
NewBuildResultErrorSet(P, S, id) ==
    [Ptr |-> P, Val |-> NoVal, State |-> S,
     Error |-> [Msg |-> "bad SPIR-V", Code |-> 0],
     MBuildResultMutex |-> Unlocked, id |-> id]

\* Mutant of NewBuildResult: Ptr initialised to &Val instead of P.
NewBuildResultPtrSet(P, S, id) ==
    [Ptr |-> AddrOfVal, Val |-> NoVal, State |-> S,
     Error |-> [Msg |-> "", Code |-> 0],
     MBuildResultMutex |-> Unlocked, id |-> id]

\* BuildResult(T *P, BuildState S) : Ptr{P}, State{S}, Error{"", 0} {}
\* Val is default-constructed, the mutex starts unlocked.
NewBuildResult(P, S, id) ==
    [Ptr |-> P, Val |-> NoVal, State |-> S,
     Error |-> [Msg |-> "", Code |-> 0],
     MBuildResultMutex |-> Unlocked, id |-> id]

\* ProgramCache{}: both maps empty
EmptyProgramCache == [Cache |-> <<>>, KeyMap |-> EmptyBag]

\* The entry a thread's pointer denotes, while the pointer is valid.
Valid(P) ==
    /\ P.key \in DOMAIN MCachedPrograms.Cache
    /\ MCachedPrograms.Cache[P.key].id = P.id
Deref(P) == MCachedPrograms.Cache[P.key]

\* MCachedPrograms with one field of the entry at key K changed
StoreEntry(K, entry) ==
    [MCachedPrograms EXCEPT !.Cache = [@ EXCEPT ![K] = entry]]

\* Mutant of Pred: one readiness test for the whole cache instead of one per
\* entry: every cached program must be built.
PredAllBuilt(BR) ==
    \A K \in DOMAIN MCachedPrograms.Cache :
        MCachedPrograms.Cache[K].State \in {BS_Done, BS_Failed}

\* Mutant of Pred: MBuildCV.wait(Lock) with no predicate, any wakeup ends it.
PredAny(BR) == TRUE

\* Mutant of Pred: BS_Done left out of the predicate.
PredFailedOnly(BR) == BR.State = BS_Failed

\* The predicate waitUntilBuilt waits for, lines 148-151
Pred(BR) == BR.State = BS_Done \/ BR.State = BS_Failed

\* No checkPiResult call
NoThrow == [thrown |-> FALSE, code |-> PI_SUCCESS, message |-> nullptr]

\* No call on the platform table yet; void calls have ret = NoId
NoId == -1
NoCall == [op |-> "none", Platform |-> 0, Id |-> NoId, ret |-> NoId]

\* plugin's constructor, lines 93-97: both vectors are empty
PlatformsInit ==
    /\ PiPlatforms = <<>>
    /\ LastDeviceIds = <<>>
    /\ platformCall = NoCall

PluginIdle ==
    /\ pluginpc = "idle"
    /\ Variant = "Exception"
    /\ pi_result = PI_SUCCESS
    /\ LastError = [result |-> PI_SUCCESS, message |-> "slow path taken"]
    /\ WarningLevel = 0
    /\ message = nullptr
    /\ clog = <<>>
    /\ Thrown = NoThrow
    /\ PlatformsInit

\* The cache after construction, no thread in it
CacheInit ==
    /\ MProgramCacheMutex = Unlocked
    /\ MCachedPrograms = EmptyProgramCache
    /\ MKernelsPerProgramCache = <<>>
    /\ MKernelFastCache = <<>>
    /\ pc = [t \in Threads |-> "idle"]
    /\ CacheKey = [t \in Threads |-> <<>>]
    /\ BuildResultPtr = [t \in Threads |-> NoBR]
    /\ InsertionTookPlace = [t \in Threads |-> FALSE]
    /\ ret = [t \in Threads |-> NoRet]
    /\ buildCalls = [k \in ProgramKeys |-> 0]
    /\ epoch = 0
    /\ MKernelFastCacheMutex = Unlocked
    /\ fastpc = [t \in FastThreads |-> "idle"]
    /\ FastCacheKey = [t \in FastThreads |-> <<>>]
    /\ FastCacheVal = [t \in FastThreads |-> AbsentFastVal]
    /\ FastRet = [t \in FastThreads |-> AbsentFastVal]
    /\ MKernelsPerProgramCacheMutex = Unlocked
    /\ kernelpc = [t \in KernelThreads |-> "idle"]
    /\ KProgram = [t \in KernelThreads |-> NoVal]
    /\ KName = [t \in KernelThreads |-> ""]
    /\ KernelResultPtr = [t \in KernelThreads |-> NoBR]
    /\ KernelInserted = [t \in KernelThreads |-> FALSE]
    /\ kernelret = [t \in KernelThreads |-> NoRet]

Init == CacheInit /\ PluginIdle

(***************************************************************************)
(* getOrInsertProgram, lines 109-125.                                      *)
(***************************************************************************)
\* Mutant of Emplace: a container that moves its elements when it grows (a
\* vector, a rehashing table): the nodes of the other keys become new objects.
EmplaceRelocating(Cache, K, entry) ==
    IF K \in DOMAIN Cache
    THEN Cache
    ELSE [x \in DOMAIN Cache \cup {K} |->
             IF x = K THEN entry ELSE [Cache[x] EXCEPT !.id = @ + 1]]

\* Mutant of Emplace: a cache of one entry, an insertion evicts the others.
EmplaceEvicting(Cache, K, entry) ==
    IF K \in DOMAIN Cache
    THEN Cache
    ELSE [x \in {K} |-> entry]

\* Mutant of Emplace: insert_or_assign, an existing entry is overwritten.
EmplaceAssign(Cache, K, entry) ==
    [x \in DOMAIN Cache \cup {K} |-> IF x = K THEN entry ELSE Cache[x]]

\* std::map::emplace: inserts only when the key is absent, lines 113-115
Emplace(Cache, K, entry) ==
    IF K \in DOMAIN Cache
    THEN Cache
    ELSE [x \in DOMAIN Cache \cup {K} |-> IF x = K THEN entry ELSE Cache[x]]

\* Mutant of EmplaceInserted: keys compared without the build options.
EmplaceInsertedByCommonKey(Cache, K) ==
    \A x \in DOMAIN Cache : CommonKeyOf(x) # CommonKeyOf(K)

\* Mutants of EmplaceInserted: the flag negated; the flag always true.
EmplaceInsertedNegated(Cache, K) == K \in DOMAIN Cache
EmplaceInsertedAlways(Cache, K) == TRUE

\* The bool std::map::emplace returns (Inserted.second, line 116): whether
\* the insertion took place.
EmplaceInserted(Cache, K) == K \notin DOMAIN Cache

\* Lines 111-115: take the program cache's mutex, emplace (CacheKey ->
\* BuildResult(nullptr, BS_InProgress)); Inserted = (node, inserted?).
getOrInsertProgram_emplace(t, K) ==
    /\ pc[t] = "idle"
    /\ \A u \in Threads : u < t => pc[u] # "idle"   \* threads are numbered as they enter
    /\ MProgramCacheMutex = Unlocked
    /\ MProgramCacheMutex' = t
    /\ CacheKey' = [CacheKey EXCEPT ![t] = K]
    /\ LET Cache == MCachedPrograms.Cache
           NewCache == Emplace(Cache, K, NewBuildResult(nullptr, BS_InProgress, epoch))
       IN /\ MCachedPrograms' = [MCachedPrograms EXCEPT !.Cache = NewCache]
          /\ BuildResultPtr' = [BuildResultPtr EXCEPT ![t] = [key |-> K, id |-> NewCache[K].id]]
          /\ InsertionTookPlace' = [InsertionTookPlace EXCEPT ![t] = EmplaceInserted(Cache, K)]
    /\ pc' = [pc EXCEPT ![t] = "emplaced"]
    /\ UNCHANGED <<cacheVars, ret, buildCalls>>

\* publish_success has completed on the entry P points to
PublishCompleted(P) ==
    /\ Valid(P)
    /\ Deref(P).State = BS_Done
    /\ \A u \in Threads :
          ~(BuildResultPtr[u] = P /\ pc[u] \in {"publish", "publish_ptr", "publish_state", "publish_notify"})

\* Mutant of getOrInsertProgram_return: the Locked<> guard outlives the call,
\* the mutex stays with the caller.
getOrInsertProgram_returnLocked(t) ==
    /\ pc[t] = "emplaced"
    /\ MProgramCacheMutex = t
    /\ MProgramCacheMutex' = t
    /\ MCachedPrograms' =
          IF InsertionTookPlace[t]
          THEN [MCachedPrograms EXCEPT
                  !.KeyMap = @ (+) SetToBag({<<CommonKeyOf(CacheKey[t]), CacheKey[t]>>})]
          ELSE MCachedPrograms
    /\ pc' = [pc EXCEPT ![t] = IF InsertionTookPlace[t] THEN "build" ELSE "wait"]
    /\ UNCHANGED <<cacheVars, CacheKey, BuildResultPtr, InsertionTookPlace, ret, buildCalls>>

\* Lines 116-124: the winner saves (CommonKey -> CacheKey) in KeyMap; the
\* Locked<> guard releases the mutex on return.  The caller then builds
\* (Inserted.second) or calls waitUntilBuilt.
getOrInsertProgram_return(t) ==
    /\ pc[t] = "emplaced"
    /\ MProgramCacheMutex = t
    /\ MProgramCacheMutex' = Unlocked
    /\ MCachedPrograms' =
          IF InsertionTookPlace[t]
          THEN [MCachedPrograms EXCEPT
                  !.KeyMap = @ (+) SetToBag({<<CommonKeyOf(CacheKey[t]), CacheKey[t]>>})]
          ELSE MCachedPrograms
    /\ pc' = [pc EXCEPT ![t] = IF InsertionTookPlace[t] THEN "build" ELSE "wait"]
    /\ UNCHANGED <<cacheVars, CacheKey, BuildResultPtr, InsertionTookPlace, ret, buildCalls>>

\* lookup_by_common_key: the full keys KeyMap holds under the common key C,
\* each with the number of pairs (C, key) in the multimap.
lookup_by_common_key(C) ==
    LET Keys == {p[2] : p \in {q \in BagToSet(MCachedPrograms.KeyMap) : q[1] = C}}
    IN [K \in Keys |-> CopiesIn(<<C, K>>, MCachedPrograms.KeyMap)]

(***************************************************************************)
(* The winner: build_program, then publish_success or publish_failure      *)
(* (specification 4.1, 4.2, 6).                                            *)
(***************************************************************************)
\* The winner calls the backend dispatcher; no cache mutex is held.
build_program_call(t) ==
    /\ pc[t] = "build"
    /\ buildCalls' = [buildCalls EXCEPT ![CacheKey[t]] = @ + 1]
    /\ pc' = [pc EXCEPT ![t] = "building"]
    /\ UNCHANGED <<MProgramCacheMutex, MCachedPrograms, cacheVars, CacheKey,
                   BuildResultPtr, InsertionTookPlace, ret>>

\* The dispatcher returns a native handle or a failure (message, code).
build_program_return(t, r) ==
    /\ pc[t] = "building"
    /\ ret' = [ret EXCEPT ![t] = r]
    /\ pc' = [pc EXCEPT ![t] = "publish"]
    /\ UNCHANGED <<MProgramCacheMutex, MCachedPrograms, cacheVars, CacheKey,
                   BuildResultPtr, InsertionTookPlace, buildCalls>>

\* Mutant of publish_begin: no test of the entry's state.
publish_beginUnchecked(t) ==
    /\ pc[t] = "publish"
    /\ Valid(BuildResultPtr[t])
    /\ LET BR == Deref(BuildResultPtr[t]) IN
       /\ BR.MBuildResultMutex = Unlocked
       /\ MCachedPrograms' =
             StoreEntry(CacheKey[t],
                 IF ret[t].kind = "handle"
                 THEN [BR EXCEPT !.MBuildResultMutex = t, !.Val = ret[t].h]
                 ELSE [BR EXCEPT !.MBuildResultMutex = t,
                                 !.Error = [Msg |-> ret[t].Msg, Code |-> ret[t].Code]])
    /\ pc' = [pc EXCEPT ![t] = IF ret[t].kind = "handle" THEN "publish_ptr" ELSE "publish_state"]
    /\ UNCHANGED <<MProgramCacheMutex, cacheVars, CacheKey, BuildResultPtr,
                   InsertionTookPlace, ret, buildCalls>>

\* publish_*: take the entry's mutex.  An entry that has left InProgress was
\* published before: CacheInvariantViolation, fatal, the entry is left as it
\* is.  Else publish_success sets the value, publish_failure fills the error.
publish_begin(t) ==
    /\ pc[t] = "publish"
    /\ Valid(BuildResultPtr[t])
    /\ LET BR == Deref(BuildResultPtr[t]) IN
       /\ BR.MBuildResultMutex = Unlocked
       /\ IF BR.State # BS_InProgress
          THEN /\ pc' = [pc EXCEPT ![t] = "fatal"]
               /\ ret' = [ret EXCEPT ![t] = RetViolation]
               /\ UNCHANGED MCachedPrograms
          ELSE /\ MCachedPrograms' =
                     StoreEntry(CacheKey[t],
                         IF ret[t].kind = "handle"
                         THEN [BR EXCEPT !.MBuildResultMutex = t, !.Val = ret[t].h]
                         ELSE [BR EXCEPT !.MBuildResultMutex = t,
                                         !.Error = [Msg |-> ret[t].Msg, Code |-> ret[t].Code]])
               /\ pc' = [pc EXCEPT ![t] = IF ret[t].kind = "handle" THEN "publish_ptr" ELSE "publish_state"]
               /\ UNCHANGED ret
    /\ UNCHANGED <<MProgramCacheMutex, cacheVars, CacheKey, BuildResultPtr,
                   InsertionTookPlace, buildCalls>>

\* publish_success: ready_handle = &value
publish_ptr(t) ==
    /\ pc[t] = "publish_ptr"
    /\ Valid(BuildResultPtr[t])
    /\ MCachedPrograms' =
          StoreEntry(CacheKey[t], [Deref(BuildResultPtr[t]) EXCEPT !.Ptr = AddrOfVal])
    /\ pc' = [pc EXCEPT ![t] = "publish_state"]
    /\ UNCHANGED <<MProgramCacheMutex, cacheVars, CacheKey, BuildResultPtr,
                   InsertionTookPlace, ret, buildCalls>>

\* publish_success: state = Done; publish_failure: state = Failed
publish_state(t) ==
    /\ pc[t] = "publish_state"
    /\ Valid(BuildResultPtr[t])
    /\ MCachedPrograms' =
          StoreEntry(CacheKey[t],
              [Deref(BuildResultPtr[t]) EXCEPT
                  !.State = IF ret[t].kind = "handle" THEN BS_Done ELSE BS_Failed])
    /\ pc' = [pc EXCEPT ![t] = "publish_notify"]
    /\ UNCHANGED <<MProgramCacheMutex, cacheVars, CacheKey, BuildResultPtr,
                   InsertionTookPlace, ret, buildCalls>>

\* The threads blocked in MBuildCV.wait of the entry P points to
Sleepers(P) == {u \in Threads : pc[u] = "sleeping" /\ BuildResultPtr[u] = P}

\* The mutant of notifyAllBuild: notify_one() instead of notify_all()
notifyOneBuild(P) ==
    IF Sleepers(P) = {} THEN {} ELSE {CHOOSE u \in Sleepers(P) : TRUE}

\* notifyAllBuild, lines 161-163: BR.MBuildCV.notify_all() wakes every
\* thread blocked on the entry's condition variable.
notifyAllBuild(P) == Sleepers(P)

\* publish_*: notify all waiters, release the entry's mutex; the winner's
\* call ends with the handle or the failure the dispatcher gave it.
publish_notify(t) ==
    /\ pc[t] = "publish_notify"
    /\ Valid(BuildResultPtr[t])
    /\ MCachedPrograms' =
          StoreEntry(CacheKey[t],
              [Deref(BuildResultPtr[t]) EXCEPT !.MBuildResultMutex = Unlocked])
    /\ pc' = [u \in Threads |->
                IF u = t THEN "done"
                ELSE IF u \in notifyAllBuild(BuildResultPtr[t]) THEN "woken"
                ELSE pc[u]]
    /\ UNCHANGED <<MProgramCacheMutex, cacheVars, CacheKey, BuildResultPtr,
                   InsertionTookPlace, ret, buildCalls>>

(***************************************************************************)
(* The others: waitUntilBuilt, lines 137-159.                              *)
(***************************************************************************)
\* Mutant of waitUntilBuilt_check: the predicate is evaluated without the
\* entry's mutex (a lock-free fast check before the wait).
waitUntilBuilt_checkUnlocked(t) ==
    /\ pc[t] \in {"wait", "woken"}
    /\ Valid(BuildResultPtr[t])
    /\ LET BR == Deref(BuildResultPtr[t]) IN
       IF Pred(BR)
       THEN /\ pc' = [pc EXCEPT ![t] = "built"]
            /\ UNCHANGED MCachedPrograms
       ELSE /\ BR.MBuildResultMutex = Unlocked
            /\ pc' = [pc EXCEPT ![t] = "blocking"]
            /\ MCachedPrograms' =
                  StoreEntry(CacheKey[t], [BR EXCEPT !.MBuildResultMutex = t])
    /\ UNCHANGED <<MProgramCacheMutex, cacheVars, CacheKey, BuildResultPtr,
                   InsertionTookPlace, ret, buildCalls>>

\* Lines 139-141: lock MBuildResultMutex and evaluate the predicate, on the
\* call and after every wakeup.  If it holds, wait() returns and the lock is
\* released on return (line 142); else the thread is about to block, the
\* mutex still held.
waitUntilBuilt_check(t) ==
    /\ pc[t] \in {"wait", "woken"}
    /\ Valid(BuildResultPtr[t])
    /\ LET BR == Deref(BuildResultPtr[t]) IN
       /\ BR.MBuildResultMutex = Unlocked
       /\ IF Pred(BR)
          THEN /\ pc' = [pc EXCEPT ![t] = "built"]
               /\ UNCHANGED MCachedPrograms
          ELSE /\ pc' = [pc EXCEPT ![t] = "blocking"]
               /\ MCachedPrograms' =
                     StoreEntry(CacheKey[t], [BR EXCEPT !.MBuildResultMutex = t])
    /\ UNCHANGED <<MProgramCacheMutex, cacheVars, CacheKey, BuildResultPtr,
                   InsertionTookPlace, ret, buildCalls>>

\* Mutant of waitUntilBuilt_block: the thread goes to sleep with the mutex.
waitUntilBuilt_blockLocked(t) ==
    /\ pc[t] = "blocking"
    /\ Valid(BuildResultPtr[t])
    /\ pc' = [pc EXCEPT ![t] = "sleeping"]
    /\ UNCHANGED <<MProgramCacheMutex, MCachedPrograms, cacheVars, CacheKey,
                   BuildResultPtr, InsertionTookPlace, ret, buildCalls>>

\* Line 141, condition_variable::wait: release the mutex and block, atomically.
waitUntilBuilt_block(t) ==
    /\ pc[t] = "blocking"
    /\ Valid(BuildResultPtr[t])
    /\ MCachedPrograms' =
          StoreEntry(CacheKey[t],
              [Deref(BuildResultPtr[t]) EXCEPT !.MBuildResultMutex = Unlocked])
    /\ pc' = [pc EXCEPT ![t] = "sleeping"]
    /\ UNCHANGED <<MProgramCacheMutex, cacheVars, CacheKey, BuildResultPtr,
                   InsertionTookPlace, ret, buildCalls>>

\* condition_variable::wait may wake with no notification.
SpuriousWakeup(t) ==
    /\ pc[t] = "sleeping"
    /\ pc' = [pc EXCEPT ![t] = "woken"]
    /\ UNCHANGED <<MProgramCacheMutex, MCachedPrograms, cacheVars, CacheKey,
                   BuildResultPtr, InsertionTookPlace, ret, buildCalls>>

\* Lines 153-158: throw ExceptionT(Error.Msg, Error.Code) if the error is
\* filled in, else return Ptr.load(); the caller takes the handle it points to.
waitUntilBuilt_result(BR) ==
    IF isFilledIn(BR.Error)
    THEN RetFailed(BR.Error.Msg, BR.Error.Code)
    ELSE IF BR.Ptr = nullptr THEN RetNull ELSE RetHandle(BR.Val)

waitUntilBuilt_return(t) ==
    /\ pc[t] = "built"
    /\ Valid(BuildResultPtr[t])
    /\ ret' = [ret EXCEPT ![t] = waitUntilBuilt_result(Deref(BuildResultPtr[t]))]
    /\ pc' = [pc EXCEPT ![t] = "done"]
    /\ UNCHANGED <<MProgramCacheMutex, MCachedPrograms, cacheVars, CacheKey,
                   BuildResultPtr, InsertionTookPlace, buildCalls>>

(***************************************************************************)
(* The runtime's threads, each going through one get_or_build_program.     *)
(***************************************************************************)
\* One step of thread t's get_or_build_program
get_or_build_program(t) ==
    \/ \E K \in ProgramKeys : getOrInsertProgram_emplace(t, K)
    \/ getOrInsertProgram_return(t)
    \/ build_program_call(t)
    \/ \E r \in BuildOutcomes : build_program_return(t, r)
    \/ publish_begin(t)
    \/ publish_ptr(t)
    \/ publish_state(t)
    \/ publish_notify(t)
    \/ waitUntilBuilt_check(t)
    \/ waitUntilBuilt_block(t)
    \/ SpuriousWakeup(t)
    \/ waitUntilBuilt_return(t)

Next == \E t \in Threads : get_or_build_program(t)

\* The steps a running thread takes by itself: a thread that has entered is
\* scheduled again and again (OS threads).  When a thread enters, whether
\* the dispatcher's build ever returns, and spurious wakeups are not.
Progress(t) ==
    \/ getOrInsertProgram_return(t)
    \/ build_program_call(t)
    \/ publish_begin(t)
    \/ publish_ptr(t)
    \/ publish_state(t)
    \/ publish_notify(t)
    \/ waitUntilBuilt_check(t)
    \/ waitUntilBuilt_block(t)
    \/ waitUntilBuilt_return(t)

Spec == Init /\ [][Next]_vars

FairSpec == Init /\ [][Next]_vars /\ \A t \in Threads : WF_vars(Progress(t))

\* FairSpec, and a thread that calls lock() on an entry's mutex gets it when
\* the mutex is free again and again: it is not overtaken for ever by a
\* waiter that takes and drops the mutex on one spurious wakeup after another.
FairLockSpec ==
    /\ Init /\ [][Next]_vars
    /\ \A t \in Threads : WF_vars(Progress(t))
    /\ \A t \in Threads : SF_vars(publish_begin(t))

\* A collaborator bug: the winner, its publish_* done, calls publish_success
\* or publish_failure on its entry once more, with any result.
publish_twice(t, r) ==
    /\ pc[t] = "done"
    /\ InsertionTookPlace[t]
    /\ ret' = [ret EXCEPT ![t] = r]
    /\ pc' = [pc EXCEPT ![t] = "publish"]
    /\ UNCHANGED <<MProgramCacheMutex, MCachedPrograms, cacheVars, CacheKey,
                   BuildResultPtr, InsertionTookPlace, buildCalls>>

NextRepublish ==
    \/ \E t \in ResetThreads : get_or_build_program(t)
    \/ \E t \in ResetThreads, r \in BuildOutcomes : publish_twice(t, r)

SpecRepublish == Init /\ [][NextRepublish]_vars

(***************************************************************************)
(* The other two subcaches and reset().                                    *)
(***************************************************************************)
\* A default-constructed KernelArgMaskPairT: (null kernel, null arg mask)
KernelNoVal == <<nullptr, nullptr>>

\* Mutant of KernelByName: one map of kernel names for all programs.
KernelByNameShared(Program) ==
    IF DOMAIN MKernelsPerProgramCache = {}
    THEN <<>>
    ELSE MKernelsPerProgramCache[CHOOSE P \in DOMAIN MKernelsPerProgramCache : TRUE]

\* LockedCache.get()[Program], line 130: the program's map of kernels, made
\* empty on the first request for the program.
KernelByName(Program) ==
    IF Program \in DOMAIN MKernelsPerProgramCache
    THEN MKernelsPerProgramCache[Program]
    ELSE <<>>

\* Lines 130-133: the kernel cache after [Program] and the emplace of
\* (KernelName -> BuildResult(nullptr, BS_InProgress)).
KernelsAfterInsert(Program, KernelName) ==
    LET Cache == Emplace(KernelByName(Program), KernelName,
                         [NewBuildResult(nullptr, BS_InProgress, epoch)
                             EXCEPT !.Val = KernelNoVal])
    IN [P \in DOMAIN MKernelsPerProgramCache \cup {Program} |->
           IF P = Program THEN Cache ELSE MKernelsPerProgramCache[P]]

\* getOrInsertKernel, lines 127-135, under MKernelsPerProgramCacheMutex:
\* LockedCache.get()[Program] makes the program's map on first use, emplace
\* adds (KernelName -> BuildResult(nullptr, BS_InProgress)) when absent.
getOrInsertKernel(Program, KernelName) ==
    /\ MKernelsPerProgramCache' = KernelsAfterInsert(Program, KernelName)
    /\ UNCHANGED <<MProgramCacheMutex, MCachedPrograms, MKernelFastCache, epoch, pc,
                   CacheKey, BuildResultPtr, InsertionTookPlace, ret, buildCalls, fastVars, pluginVars, kernelVars>>

\* saveKernel, lines 175-181, under MKernelFastCacheMutex:
\* MKernelFastCache.emplace(CacheKey, CacheVal) keeps an existing value.
saveKernel(FastKey, CacheVal) ==
    /\ MKernelFastCache' = Emplace(MKernelFastCache, FastKey, CacheVal)
    /\ UNCHANGED <<MProgramCacheMutex, MCachedPrograms, MKernelsPerProgramCache, epoch,
                   pc, CacheKey, BuildResultPtr, InsertionTookPlace, ret, buildCalls, fastVars, pluginVars, kernelVars>>

\* The program handles built and published in the cache for program key K:
\* the runtime asks for kernels of, and fast-publishes, only what it has built.
BuiltPrograms(K) ==
    IF K \in DOMAIN MCachedPrograms.Cache /\ MCachedPrograms.Cache[K].State = BS_Done
    THEN {MCachedPrograms.Cache[K].Val}
    ELSE {}

\* Mutant of reset: only the program cache is cleared.
resetProgramsOnly ==
    /\ epoch < MaxResets
    /\ MCachedPrograms' = EmptyProgramCache
    /\ epoch' = epoch + 1
    /\ UNCHANGED <<MKernelsPerProgramCache, MKernelFastCache, MProgramCacheMutex, pc,
                   CacheKey, BuildResultPtr, InsertionTookPlace, ret, buildCalls, fastVars, pluginVars, kernelVars>>

\* reset(), lines 186-190: the three maps are assigned empty ones; no mutex
\* is taken.
reset ==
    /\ epoch < MaxResets
    /\ MCachedPrograms' = EmptyProgramCache
    /\ MKernelsPerProgramCache' = <<>>
    /\ MKernelFastCache' = <<>>
    /\ epoch' = epoch + 1
    /\ UNCHANGED <<MProgramCacheMutex, pc, CacheKey, BuildResultPtr,
                   InsertionTookPlace, ret, buildCalls, fastVars, pluginVars, kernelVars>>

\* A thread whose BuildResult* points to a node reset() destroyed uses it:
\* undefined behaviour.  It may end with any result, or not at all.
UsesEntry(t) ==
    pc[t] \in {"publish", "publish_ptr", "publish_state", "publish_notify",
               "wait", "woken", "blocking", "sleeping", "built"}

UseAfterFree(t) ==
    /\ UsesEntry(t)
    /\ ~Valid(BuildResultPtr[t])
    /\ \/ /\ pc' = [pc EXCEPT ![t] = "hung"]
          /\ UNCHANGED ret
       \/ /\ pc' = [pc EXCEPT ![t] = "done"]
          /\ \E r \in BuildOutcomes \cup {RetNull} : ret' = [ret EXCEPT ![t] = r]
    /\ UNCHANGED <<MProgramCacheMutex, MCachedPrograms, cacheVars, CacheKey,
                   BuildResultPtr, InsertionTookPlace, buildCalls>>

NextReset ==
    \/ \E t \in ResetThreads : get_or_build_program(t)
    \/ reset
    \/ \E t \in ResetThreads : UseAfterFree(t)
    \/ \E K \in ProgramKeys, N \in KernelNames :
          \E P \in BuiltPrograms(K) : getOrInsertKernel(P, N)
    \/ \E K \in ProgramKeys, N \in KernelNames :
          \E P \in BuiltPrograms(K), Kern \in KernelHandles :
             /\ P \in DOMAIN MKernelsPerProgramCache
             /\ N \in DOMAIN MKernelsPerProgramCache[P]
             /\ saveKernel(FastKeyOf(K, N), FastVal(Kern, P))

SpecReset == Init /\ [][NextReset]_vars

(***************************************************************************)
(* The kernel fast cache: tryToGetKernelFast and saveKernel called by      *)
(* threads, each under MKernelFastCacheMutex.                              *)
(***************************************************************************)
\* Line 177: saveKernel(CacheKey, CacheVal) takes the fast cache's mutex.
saveKernel_lock(t, K, V) ==
    /\ fastpc[t] = "idle"
    /\ \A u \in FastThreads : u < t => fastpc[u] # "idle"   \* threads are numbered as they enter
    /\ MKernelFastCacheMutex = Unlocked
    /\ MKernelFastCacheMutex' = t
    /\ FastCacheKey' = [FastCacheKey EXCEPT ![t] = K]
    /\ FastCacheVal' = [FastCacheVal EXCEPT ![t] = V]
    /\ fastpc' = [fastpc EXCEPT ![t] = "save"]
    /\ UNCHANGED <<programVars, pluginVars, kernelVars, MKernelFastCache, FastRet>>

\* Mutant of saveKernel_emplace: MKernelFastCache[CacheKey] = CacheVal.
saveKernel_assign(t) ==
    /\ fastpc[t] = "save"
    /\ MKernelFastCacheMutex = t
    /\ MKernelFastCache' = EmplaceAssign(MKernelFastCache, FastCacheKey[t], FastCacheVal[t])
    /\ MKernelFastCacheMutex' = Unlocked
    /\ fastpc' = [fastpc EXCEPT ![t] = "saved"]
    /\ UNCHANGED <<programVars, pluginVars, kernelVars, FastCacheKey, FastCacheVal, FastRet>>

\* Lines 180-181: MKernelFastCache.emplace(CacheKey, CacheVal), and the
\* unique_lock releases the mutex on return.
saveKernel_emplace(t) ==
    /\ fastpc[t] = "save"
    /\ MKernelFastCacheMutex = t
    /\ MKernelFastCache' = Emplace(MKernelFastCache, FastCacheKey[t], FastCacheVal[t])
    /\ MKernelFastCacheMutex' = Unlocked
    /\ fastpc' = [fastpc EXCEPT ![t] = "saved"]
    /\ UNCHANGED <<programVars, pluginVars, kernelVars, FastCacheKey, FastCacheVal, FastRet>>

\* Mutant of tryToGetKernelFast_lock: the lookup takes the kernel cache's
\* mutex as well as the fast cache's, and keeps it.
tryToGetKernelFast_lockBoth(t, K) ==
    /\ fastpc[t] = "idle"
    /\ \A u \in FastThreads : u < t => fastpc[u] # "idle"
    /\ MKernelFastCacheMutex = Unlocked
    /\ MKernelsPerProgramCacheMutex = Unlocked
    /\ MKernelFastCacheMutex' = t
    /\ MKernelsPerProgramCacheMutex' = t
    /\ FastCacheKey' = [FastCacheKey EXCEPT ![t] = K]
    /\ fastpc' = [fastpc EXCEPT ![t] = "find"]
    /\ UNCHANGED <<programVars, pluginVars, kernelpc, KProgram, KName, KernelResultPtr,
                   KernelInserted, kernelret, MKernelFastCache, FastCacheVal, FastRet>>

\* Line 167: tryToGetKernelFast(CacheKey) takes the fast cache's mutex.
tryToGetKernelFast_lock(t, K) ==
    /\ fastpc[t] = "idle"
    /\ \A u \in FastThreads : u < t => fastpc[u] # "idle"
    /\ MKernelFastCacheMutex = Unlocked
    /\ MKernelFastCacheMutex' = t
    /\ FastCacheKey' = [FastCacheKey EXCEPT ![t] = K]
    /\ fastpc' = [fastpc EXCEPT ![t] = "find"]
    /\ UNCHANGED <<programVars, pluginVars, kernelVars, MKernelFastCache, FastCacheVal, FastRet>>

\* Mutant of tryToGetKernelFast_find: return MKernelFastCache[CacheKey], which
\* inserts a value-initialised tuple for an absent key.
tryToGetKernelFast_subscript(t) ==
    /\ fastpc[t] = "find"
    /\ MKernelFastCacheMutex = t
    /\ MKernelFastCache' = Emplace(MKernelFastCache, FastCacheKey[t], AbsentFastVal)
    /\ FastRet' = [FastRet EXCEPT ![t] = MKernelFastCache'[FastCacheKey[t]]]
    /\ MKernelFastCacheMutex' = Unlocked
    /\ fastpc' = [fastpc EXCEPT ![t] = "got"]
    /\ UNCHANGED <<programVars, pluginVars, kernelVars, FastCacheKey, FastCacheVal>>

\* Mutant of tryToGetKernelFast_find: the four null pointers whether or not
\* find(CacheKey) finds the key.
tryToGetKernelFast_miss(t) ==
    /\ fastpc[t] = "find"
    /\ MKernelFastCacheMutex = t
    /\ FastRet' = [FastRet EXCEPT ![t] = AbsentFastVal]
    /\ MKernelFastCacheMutex' = Unlocked
    /\ fastpc' = [fastpc EXCEPT ![t] = "got"]
    /\ UNCHANGED <<programVars, pluginVars, kernelVars, MKernelFastCache, FastCacheKey, FastCacheVal>>

\* Lines 168-173: find(CacheKey); return It->second when found, else the
\* tuple of four null pointers; the unique_lock releases the mutex on return.
tryToGetKernelFast_find(t) ==
    /\ fastpc[t] = "find"
    /\ MKernelFastCacheMutex = t
    /\ FastRet' = [FastRet EXCEPT ![t] =
                      IF FastCacheKey[t] \in DOMAIN MKernelFastCache
                      THEN MKernelFastCache[FastCacheKey[t]]
                      ELSE AbsentFastVal]
    /\ MKernelFastCacheMutex' = Unlocked
    /\ fastpc' = [fastpc EXCEPT ![t] = "got"]
    /\ UNCHANGED <<programVars, pluginVars, kernelVars, MKernelFastCache, FastCacheKey, FastCacheVal>>

NextFast ==
    \E t \in FastThreads :
        \/ \E K \in FastKeys, V \in FastVals : saveKernel_lock(t, K, V)
        \/ saveKernel_emplace(t)
        \/ \E K \in FastKeys : tryToGetKernelFast_lock(t, K)
        \/ tryToGetKernelFast_find(t)

SpecFast == Init /\ [][NextFast]_vars

\* The fast cache's threads beside reset()
NextFastReset ==
    \/ NextFast
    \/ reset

SpecFastReset == Init /\ [][NextFastReset]_vars

(***************************************************************************)
(* The kernels-per-program cache: threads going through                    *)
(* get_or_build_kernel(program, name): getOrInsertKernel, then build and   *)
(* publish for the winner, waitUntilBuilt for the others.                  *)
(***************************************************************************)
\* build_kernel(program, name) -> Result<(kernel, arg mask), (message, code)>
KernelOutcomes ==
    {RetHandle(<<k, "&argmask">>) : k \in KernelHandles}
        \cup {RetFailed(m, c) : m \in Messages, c \in Codes}

\* The kernel entry a thread's pointer denotes
KernelValid(P) ==
    /\ P.key # <<>>
    /\ P.key[1] \in DOMAIN MKernelsPerProgramCache
    /\ P.key[2] \in DOMAIN MKernelsPerProgramCache[P.key[1]]
    /\ MKernelsPerProgramCache[P.key[1]][P.key[2]].id = P.id
KernelDeref(P) == MKernelsPerProgramCache[P.key[1]][P.key[2]]

\* Lines 129-133: take the kernel cache's mutex, [Program], emplace.
getOrInsertKernel_emplace(t, Program, KernelName) ==
    /\ kernelpc[t] = "idle"
    /\ \A u \in KernelThreads : u < t => kernelpc[u] # "idle"   \* numbered as they enter
    /\ MKernelsPerProgramCacheMutex = Unlocked
    /\ MKernelsPerProgramCacheMutex' = t
    /\ KProgram' = [KProgram EXCEPT ![t] = Program]
    /\ KName' = [KName EXCEPT ![t] = KernelName]
    /\ MKernelsPerProgramCache' = KernelsAfterInsert(Program, KernelName)
    /\ KernelResultPtr' = [KernelResultPtr EXCEPT ![t] =
          [key |-> <<Program, KernelName>>,
           id |-> MKernelsPerProgramCache'[Program][KernelName].id]]
    /\ KernelInserted' = [KernelInserted EXCEPT ![t] =
          EmplaceInserted(KernelByName(Program), KernelName)]
    /\ kernelpc' = [kernelpc EXCEPT ![t] = "emplaced"]
    /\ UNCHANGED <<programThreadVars, MKernelFastCache, fastVars, pluginVars, kernelret>>

\* Line 134: return (&Inserted.first->second, Inserted.second); the Locked<>
\* guard releases the mutex.  The caller then builds or waits.
getOrInsertKernel_return(t) ==
    /\ kernelpc[t] = "emplaced"
    /\ MKernelsPerProgramCacheMutex = t
    /\ MKernelsPerProgramCacheMutex' = Unlocked
    /\ kernelpc' = [kernelpc EXCEPT ![t] = IF KernelInserted[t] THEN "build" ELSE "wait"]
    /\ UNCHANGED <<programThreadVars, MKernelsPerProgramCache, MKernelFastCache, fastVars,
                   pluginVars, KProgram, KName, KernelResultPtr, KernelInserted, kernelret>>

\* The winner: build_kernel returns r and the winner publishes it on its
\* entry (publish_success or publish_failure).
publish_kernel(t, r) ==
    /\ kernelpc[t] = "build"
    /\ KernelValid(KernelResultPtr[t])
    /\ LET BR == KernelDeref(KernelResultPtr[t])
           Published ==
               IF r.kind = "handle"
               THEN [BR EXCEPT !.Val = r.h, !.Ptr = AddrOfVal, !.State = BS_Done]
               ELSE [BR EXCEPT !.Error = [Msg |-> r.Msg, Code |-> r.Code],
                               !.State = BS_Failed]
       IN MKernelsPerProgramCache' =
             [MKernelsPerProgramCache EXCEPT ![KProgram[t]][KName[t]] = Published]
    /\ kernelret' = [kernelret EXCEPT ![t] = r]
    /\ kernelpc' = [kernelpc EXCEPT ![t] = "done"]
    /\ UNCHANGED <<programThreadVars, MKernelsPerProgramCacheMutex, MKernelFastCache,
                   fastVars, pluginVars, KProgram, KName, KernelResultPtr, KernelInserted>>

\* The others: waitUntilBuilt on the kernel's entry returns once its state
\* is Done or Failed, lines 144-159.
waitUntilBuilt_kernel(t) ==
    /\ kernelpc[t] = "wait"
    /\ KernelValid(KernelResultPtr[t])
    /\ Pred(KernelDeref(KernelResultPtr[t]))
    /\ kernelret' = [kernelret EXCEPT ![t] = waitUntilBuilt_result(KernelDeref(KernelResultPtr[t]))]
    /\ kernelpc' = [kernelpc EXCEPT ![t] = "done"]
    /\ UNCHANGED <<programThreadVars, MKernelsPerProgramCacheMutex, MKernelsPerProgramCache,
                   MKernelFastCache, fastVars, pluginVars, KProgram, KName,
                   KernelResultPtr, KernelInserted>>

\* One step of thread t's get_or_build_kernel
get_or_build_kernel(t) ==
    \/ \E P \in Handles, N \in KernelNames : getOrInsertKernel_emplace(t, P, N)
    \/ getOrInsertKernel_return(t)
    \/ \E r \in KernelOutcomes : publish_kernel(t, r)
    \/ waitUntilBuilt_kernel(t)

NextKernel == \E t \in KernelThreads : get_or_build_kernel(t)

SpecKernel == Init /\ [][NextKernel]_vars

\* The runs of the two keyed caches.  The program cache and the kernel cache
\* share no state and no mutex: a run is one of threads in
\* get_or_build_program or one of threads in get_or_build_kernel.
NextCaches ==
    \/ /\ \A t \in KernelThreads : kernelpc[t] = "idle"
       /\ Next
    \/ /\ \A t \in Threads : pc[t] = "idle"
       /\ NextKernel

SpecCaches == Init /\ [][NextCaches]_vars

\* The runs of the three subcaches.  They share no state and no mutex, and no
\* operation of one calls an operation of another: a run is one of threads in
\* get_or_build_program, one of threads in get_or_build_kernel, or one of
\* threads in tryToGetKernelFast and saveKernel.
NextLocks ==
    \/ /\ \A t \in FastThreads : fastpc[t] = "idle"
       /\ NextCaches
    \/ /\ \A t \in Threads : pc[t] = "idle"
       /\ \A t \in KernelThreads : kernelpc[t] = "idle"
       /\ NextFast

SpecLocks == Init /\ [][NextLocks]_vars

(***************************************************************************)
(* The slow path of a dispatch (specification 6): get_or_build_program,    *)
(* then get_or_build_kernel on the program handle it gave, then            *)
(* publish_fast_path of the kernel.                                        *)
(***************************************************************************)
\* The program handle thread t goes on with after get_or_build_program.  A
\* call that ended with a handle has that handle; one that ended with a
\* failure does not go on.  One that got the null pointer from
\* waitUntilBuilt has no failure and reads the handle through the null
\* pointer: undefined behaviour, it stops or goes on with any handle.
ProgramHandleOf(t) ==
    IF pc[t] # "done" THEN {}
    ELSE IF ret[t].kind = "handle" THEN {ret[t].h}
    ELSE IF ret[t].kind = "null" THEN Handles
    ELSE {}

\* get_or_build_kernel by its winner: build_kernel returns r, published on
\* the entry (Program, KernelName).
build_kernel(Program, KernelName, r) ==
    /\ Program \in DOMAIN MKernelsPerProgramCache
    /\ KernelName \in DOMAIN MKernelsPerProgramCache[Program]
    /\ LET BR == MKernelsPerProgramCache[Program][KernelName] IN
       /\ BR.State = BS_InProgress
       /\ MKernelsPerProgramCache' =
             [MKernelsPerProgramCache EXCEPT ![Program][KernelName] =
                 IF r.kind = "handle"
                 THEN [BR EXCEPT !.Val = r.h, !.Ptr = AddrOfVal, !.State = BS_Done]
                 ELSE [BR EXCEPT !.Error = [Msg |-> r.Msg, Code |-> r.Code],
                                 !.State = BS_Failed]]
    /\ UNCHANGED <<programThreadVars, MKernelFastCache, fastVars, pluginVars, kernelVars>>

\* The kernel get_or_build_kernel(Program, KernelName) gives: the one of a
\* Done entry.
BuiltKernels(Program, KernelName) ==
    IF /\ Program \in DOMAIN MKernelsPerProgramCache
       /\ KernelName \in DOMAIN MKernelsPerProgramCache[Program]
       /\ MKernelsPerProgramCache[Program][KernelName].State = BS_Done
    THEN {MKernelsPerProgramCache[Program][KernelName].Val[1]}
    ELSE {}

NextDispatch ==
    \/ \E t \in ResetThreads : get_or_build_program(t)
    \/ \E t \in ResetThreads, N \in KernelNames :
          \E P \in ProgramHandleOf(t) : getOrInsertKernel(P, N)
    \/ \E P \in Handles, N \in KernelNames, r \in KernelOutcomes : build_kernel(P, N, r)
    \/ \E t \in ResetThreads, N \in KernelNames :
          \E P \in ProgramHandleOf(t) :
             \E Kern \in BuiltKernels(P, N) :
                saveKernel(FastKeyOf(CacheKey[t], N), FastVal(Kern, P))

SpecDispatch == Init /\ [][NextDispatch]_vars

(***************************************************************************)
(* plugin::checkPiResult (src/sycl/source/detail/plugin.hpp).              *)
(***************************************************************************)
\* __SYCL_CHECK_OCL_CODE_THROW / __SYCL_CHECK_CODE_THROW_VIA_ERRC: throw when
\* the code is not PI_SUCCESS, lines 129 and 146.
CheckCodeThrow(code) == code # PI_SUCCESS

\* Mutant of LastErrorResult: the result of piPluginGetLastError is dropped.
LastErrorResultDropped(result, Err) == result

\* Lines 118-119 and 134-136: for PI_ERROR_PLUGIN_SPECIFIC_ERROR pi_result is
\* replaced by what piPluginGetLastError returns.
LastErrorResult(result, Err) ==
    IF result = PI_ERROR_PLUGIN_SPECIFIC_ERROR THEN Err.result ELSE result

\* A call of checkPiResult with any arguments, plugin state and warning level
InitPlugin ==
    /\ CacheInit
    /\ pluginpc = "call"
    /\ Variant \in Variants
    /\ pi_result \in PiResults
    /\ LastError \in LastErrors
    /\ WarningLevel \in WarningLevels
    /\ message = nullptr
    /\ clog = <<>>
    /\ Thrown = NoThrow
    /\ PlatformsInit

\* The body both templates share: lines 117-129 and 134-146.  WithMessage:
\* the thrown exception carries the message (the <Exception> template).
checkPiResultBody(WithMessage) ==
    LET specific == pi_result = PI_ERROR_PLUGIN_SPECIFIC_ERROR
        code == LastErrorResult(pi_result, LastError)
        msg == IF specific THEN LastError.message ELSE nullptr
    IN /\ pi_result' = code
       /\ message' = msg
       /\ clog' = IF specific /\ WarningLevel >= 2 THEN Append(clog, msg) ELSE clog
       /\ IF CheckCodeThrow(code)
          THEN /\ Thrown' = [thrown |-> TRUE, code |-> code,
                             message |-> IF WithMessage THEN msg ELSE nullptr]
               /\ pluginpc' = "thrown"
          ELSE /\ Thrown' = NoThrow
               /\ pluginpc' = "returned"
       /\ UNCHANGED <<programVars, kernelVars, MKernelFastCache, fastVars, Variant, LastError,
                      WarningLevel, platformVars>>

\* template <typename Exception> void checkPiResult(RT::PiResult), lines 115-130
checkPiResult_Exception ==
    /\ pluginpc = "call"
    /\ Variant = "Exception"
    /\ checkPiResultBody(TRUE)

\* template <sycl::errc errc> void checkPiResult(RT::PiResult), lines 133-147
checkPiResult_errc ==
    /\ pluginpc = "call"
    /\ Variant = "errc"
    /\ checkPiResultBody(FALSE)

NextPlugin == checkPiResult_Exception \/ checkPiResult_errc

SpecPlugin == InitPlugin /\ [][NextPlugin]_vars

(***************************************************************************)
(* plugin's platform table: getPlatformId, getStartingDeviceId,            *)
(* setLastDeviceId, adjustLastDeviceId (plugin.hpp lines 246-286).  Each   *)
(* is "expected to be called in a thread safe manner": a call is one step. *)
(* Indices are the code's, from 0.                                         *)
(***************************************************************************)
\* The variables of a checkPiResult call
checkPiResultVars == <<pluginpc, Variant, pi_result, LastError, WarningLevel, message,
                       clog, Thrown>>

\* Vec[i] of a std::vector, and Vec after Vec[i] = v
At(Vec, i) == Vec[i + 1]
Assign(Vec, i, v) == [Vec EXCEPT ![i + 1] = v]

\* Line 250: std::find(PiPlatforms.begin(), PiPlatforms.end(), Platform) as
\* It - PiPlatforms.begin(): the first position of Platform, the size for end()
Find(Vec, Platform) ==
    IF \E i \in 1..Len(Vec) : Vec[i] = Platform
    THEN (CHOOSE i \in 1..Len(Vec) :
             Vec[i] = Platform /\ \A j \in 1..(i - 1) : Vec[j] # Platform) - 1
    ELSE Len(Vec)

\* Mutant of PlatformsAfterGet: no look-up, every call appends.
PlatformsAfterGetAlways(Vec, Platform) == Append(Vec, Platform)

\* Lines 251-254: PiPlatforms after getPlatformId(Platform)
PlatformsAfterGet(Vec, Platform) ==
    IF Find(Vec, Platform) # Len(Vec) THEN Vec ELSE Append(Vec, Platform)

\* Lines 251-255: LastDeviceIds after getPlatformId(Platform)
LastDeviceIdsAfterGet(Ids, Vec, Platform) ==
    IF Find(Vec, Platform) # Len(Vec) THEN Ids ELSE Append(Ids, 0)

\* Lines 250-256: what getPlatformId(Platform) returns
PlatformIdOf(Vec, Platform) ==
    IF Find(Vec, Platform) # Len(Vec)
    THEN Find(Vec, Platform)
    ELSE Len(PlatformsAfterGet(Vec, Platform)) - 1

\* int getPlatformId(RT::PiPlatform Platform), lines 249-257
getPlatformId(Platform) ==
    /\ PiPlatforms' = PlatformsAfterGet(PiPlatforms, Platform)
    /\ LastDeviceIds' = LastDeviceIdsAfterGet(LastDeviceIds, PiPlatforms, Platform)
    /\ platformCall' = [op |-> "getPlatformId", Platform |-> Platform, Id |-> NoId,
                        ret |-> PlatformIdOf(PiPlatforms, Platform)]
    /\ UNCHANGED <<programVars, kernelVars, MKernelFastCache, fastVars, checkPiResultVars>>

\* Mutant of StartingDeviceId: the last device id of the platform itself.
StartingDeviceIdOwn(Ids, PlatformId) ==
    At(Ids, PlatformId)

\* Lines 266-268: 0 for the first platform, else LastDeviceIds[PlatformId - 1]
StartingDeviceId(Ids, PlatformId) ==
    IF PlatformId = 0 THEN 0 ELSE At(Ids, PlatformId - 1)

\* int getStartingDeviceId(RT::PiPlatform Platform), lines 264-269
getStartingDeviceId(Platform) ==
    LET PlatformId == PlatformIdOf(PiPlatforms, Platform) IN
    /\ PiPlatforms' = PlatformsAfterGet(PiPlatforms, Platform)
    /\ LastDeviceIds' = LastDeviceIdsAfterGet(LastDeviceIds, PiPlatforms, Platform)
    /\ platformCall' = [op |-> "getStartingDeviceId", Platform |-> Platform, Id |-> NoId,
                        ret |-> StartingDeviceId(LastDeviceIds', PlatformId)]
    /\ UNCHANGED <<programVars, kernelVars, MKernelFastCache, fastVars, checkPiResultVars>>

\* void setLastDeviceId(RT::PiPlatform Platform, int Id), lines 273-276
setLastDeviceId(Platform, Id) ==
    LET PlatformId == PlatformIdOf(PiPlatforms, Platform) IN
    /\ PiPlatforms' = PlatformsAfterGet(PiPlatforms, Platform)
    /\ LastDeviceIds' =
          Assign(LastDeviceIdsAfterGet(LastDeviceIds, PiPlatforms, Platform), PlatformId, Id)
    /\ platformCall' = [op |-> "setLastDeviceId", Platform |-> Platform, Id |-> Id,
                        ret |-> NoId]
    /\ UNCHANGED <<programVars, kernelVars, MKernelFastCache, fastVars, checkPiResultVars>>

\* Mutant of Adjusted: the predecessor's id is assigned whenever it differs.
AdjustedAlways(Ids, PlatformId) ==
    IF PlatformId > 0 /\ At(Ids, PlatformId) # At(Ids, PlatformId - 1)
    THEN Assign(Ids, PlatformId, At(Ids, PlatformId - 1))
    ELSE Ids

\* Lines 283-285: LastDeviceIds after the adjustment of PlatformId
Adjusted(Ids, PlatformId) ==
    IF PlatformId > 0 /\ At(Ids, PlatformId) < At(Ids, PlatformId - 1)
    THEN Assign(Ids, PlatformId, At(Ids, PlatformId - 1))
    ELSE Ids

\* void adjustLastDeviceId(RT::PiPlatform Platform), lines 281-286
adjustLastDeviceId(Platform) ==
    LET PlatformId == PlatformIdOf(PiPlatforms, Platform) IN
    /\ PiPlatforms' = PlatformsAfterGet(PiPlatforms, Platform)
    /\ LastDeviceIds' =
          Adjusted(LastDeviceIdsAfterGet(LastDeviceIds, PiPlatforms, Platform), PlatformId)
    /\ platformCall' = [op |-> "adjustLastDeviceId", Platform |-> Platform, Id |-> NoId,
                        ret |-> NoId]
    /\ UNCHANGED <<programVars, kernelVars, MKernelFastCache, fastVars, checkPiResultVars>>

NextPlatforms ==
    \E Platform \in Platforms :
        \/ getPlatformId(Platform)
        \/ getStartingDeviceId(Platform)
        \/ \E Id \in DeviceIds : setLastDeviceId(Platform, Id)
        \/ adjustLastDeviceId(Platform)

SpecPlatforms == Init /\ [][NextPlatforms]_vars

(***************************************************************************)
(* Properties.                                                             *)
(***************************************************************************)
\* The threads whose getOrInsertProgram(K) has returned
Returned(K) ==
    {t \in Threads : CacheKey[t] = K /\ pc[t] \notin {"idle", "emplaced"}}

\* The threads whose get_or_build_program(K) has ended
Ended(K) == {t \in Threads : CacheKey[t] = K /\ pc[t] = "done"}

\* The threads whose build of K is in flight in the dispatcher
InFlight(K) == {t \in Threads : CacheKey[t] = K /\ pc[t] = "building"}

\* C1: of the getOrInsertProgram calls with one program key that have
\* returned, in any interleaving and with no reset(), exactly one returned
\* was_freshly_inserted = true and every other one returned false.
C1_ExactlyOneFresh ==
    \A K \in ProgramKeys :
        Returned(K) # {} =>
            Cardinality({t \in Returned(K) : InsertionTookPlace[t]}) = 1

\* Three calls with the same key have returned.
C1_Witness ==
    \E K \in ProgramKeys : Cardinality(Returned(K)) >= 3

\* C2: for concurrent get_or_build_program calls with one key the dispatcher's
\* build_program is invoked exactly once (never twice, and once as soon as a
\* call has ended), and at no time are two builds of the key in flight.
C2_SingleBuild ==
    \A K \in ProgramKeys :
        /\ buildCalls[K] <= 1
        /\ Cardinality(InFlight(K)) <= 1
        /\ Ended(K) # {} => buildCalls[K] = 1

\* Three calls with the same key have ended, after one build.
C2_Witness ==
    \E K \in ProgramKeys : Cardinality(Ended(K)) >= 3 /\ buildCalls[K] = 1

\* C3: all get_or_build_program calls with one key end with the same outcome:
\* the same native handle, or the same failure.
C3_SameOutcome ==
    \A t, u \in Threads :
        pc[t] = "done" /\ pc[u] = "done" /\ CacheKey[t] = CacheKey[u]
            => ret[t] = ret[u]

\* The thread is inside waitUntilBuilt
InWait(t) == pc[t] \in {"wait", "woken", "blocking", "sleeping", "built"}

\* C4: once the winner has set the entry's state to Done or Failed (it then
\* notifies), every thread inside waitUntilBuilt on that entry eventually
\* returns, wherever it stood: before its predicate check, between the check
\* and going to sleep, or asleep.
C4_NoMissedWakeup ==
    \A t \in Threads :
        (InWait(t) /\ Pred(Deref(BuildResultPtr[t]))) ~> (pc[t] = "done")

\* Two waiters slept on one entry, the winner published and has ended, and
\* both have been woken.
C4_Witness ==
    \E t, u \in Threads :
        /\ t # u
        /\ pc[t] = "woken" /\ pc[u] = "woken"
        /\ BuildResultPtr[t] = BuildResultPtr[u]
        /\ Pred(Deref(BuildResultPtr[t]))
        /\ \E w \in Threads : InsertionTookPlace[w] /\ pc[w] = "done"

\* C5: a thread that is at the call of waitUntilBuilt when the winner's
\* publish_success has completed (state already Done) goes from the call to
\* the return and never to the blocked positions of the condition variable.
C5_LateWaiterNeverBlocks ==
    [][\A t \in Threads :
          (pc[t] \in {"wait", "built"} /\ PublishCompleted(BuildResultPtr[t]))
              => pc'[t] \in {"wait", "built", "done"}]_vars

\* A thread has called waitUntilBuilt after the winner published Done and ended.
C5_Witness ==
    \E t, w \in Threads :
        /\ pc[t] = "wait"
        /\ PublishCompleted(BuildResultPtr[t])
        /\ InsertionTookPlace[w] /\ pc[w] = "done" /\ CacheKey[w] = CacheKey[t]

\* C6: once an entry's state is Done or Failed, no step changes its state,
\* handle, value or error, so every later read (waitUntilBuilt's result)
\* is the same.
C6_TerminalStable ==
    [][\A K \in DOMAIN MCachedPrograms.Cache :
          LET BR == MCachedPrograms.Cache[K] IN
          Pred(BR) =>
              /\ K \in DOMAIN MCachedPrograms'.Cache
              /\ MCachedPrograms'.Cache[K].State = BR.State
              /\ MCachedPrograms'.Cache[K].Ptr = BR.Ptr
              /\ MCachedPrograms'.Cache[K].Val = BR.Val
              /\ MCachedPrograms'.Cache[K].Error = BR.Error
              /\ waitUntilBuilt_result(MCachedPrograms'.Cache[K]) = waitUntilBuilt_result(BR)]_vars

\* Two threads have read a published entry, one after the other call's end.
C6_Witness ==
    \E t, u \in Threads :
        /\ t # u
        /\ pc[t] = "done" /\ pc[u] = "done"
        /\ ~InsertionTookPlace[t] /\ ~InsertionTookPlace[u]
        /\ CacheKey[t] = CacheKey[u]
        /\ Pred(Deref(BuildResultPtr[t]))

WinnerOf(t) ==
    {w \in Threads : InsertionTookPlace[w] /\ BuildResultPtr[w] = BuildResultPtr[t]}

\* C8: every waitUntilBuilt call that has returned from an entry in state
\* Failed raised the failure with exactly the (message, code) the winner gave
\* to publish_failure, for every message and code, and returned no pointer.
C8_FailedAlwaysRaises ==
    \A t \in Threads :
        (/\ pc[t] = "done"
         /\ ~InsertionTookPlace[t]
         /\ Deref(BuildResultPtr[t]).State = BS_Failed)
            => /\ ret[t].kind = "failed"
               /\ \A w \in WinnerOf(t) :
                     ret[t].Msg = ret[w].Msg /\ ret[t].Code = ret[w].Code

\* C9: once the entry of key K is Failed, (a) a getOrInsertProgram(K) returns
\* was_freshly_inserted = false and the same entry, left as it is, (b) no
\* build_program(K) is started, and (c) a caller returning from the entry
\* gets the failure the winner got.
C9_FailedNeverRetried ==
    [][\A K \in DOMAIN MCachedPrograms.Cache :
          MCachedPrograms.Cache[K].State = BS_Failed =>
              /\ buildCalls'[K] = buildCalls[K]
              /\ K \in DOMAIN MCachedPrograms'.Cache
              /\ MCachedPrograms'.Cache[K].State = BS_Failed
              /\ MCachedPrograms'.Cache[K].Error = MCachedPrograms.Cache[K].Error
              /\ \A t \in Threads :
                    /\ (pc[t] = "idle" /\ pc'[t] = "emplaced" /\ CacheKey'[t] = K) =>
                          /\ ~InsertionTookPlace'[t]
                          /\ BuildResultPtr'[t] = [key |-> K, id |-> MCachedPrograms.Cache[K].id]
                    /\ (pc[t] = "built" /\ pc'[t] = "done" /\ CacheKey[t] = K) =>
                          \A w \in WinnerOf(t) : ret'[t] = ret[w]]_vars

\* Key K reached Failed in an entry that a reset() has since destroyed:
\* its winner ended with the failure.
PreviouslyFailed(K) ==
    \E u \in Threads :
        /\ CacheKey[u] = K
        /\ InsertionTookPlace[u]
        /\ pc[u] = "done"
        /\ ret[u].kind = "failed"
        /\ BuildResultPtr[u].id < epoch

\* C10: a reset() leaves all three subcaches empty, and the first
\* getOrInsertProgram after it for a key that had reached Failed returns
\* was_freshly_inserted = true with a new entry, InProgress, Ptr null, error
\* empty.  (That its build can reach Done is the witness.)
C10_ResetThenFresh ==
    [][/\ epoch' # epoch =>
             /\ MCachedPrograms'.Cache = <<>>
             /\ MCachedPrograms'.KeyMap = EmptyBag
             /\ MKernelsPerProgramCache' = <<>>
             /\ MKernelFastCache' = <<>>
       /\ \A t \in Threads :
             (/\ pc[t] = "idle" /\ pc'[t] = "emplaced"
              /\ CacheKey'[t] \notin DOMAIN MCachedPrograms.Cache
              /\ PreviouslyFailed(CacheKey'[t]))
                 => /\ InsertionTookPlace'[t]
                    /\ CacheKey'[t] \in DOMAIN MCachedPrograms'.Cache
                    /\ BuildResultPtr'[t] =
                          [key |-> CacheKey'[t],
                           id |-> MCachedPrograms'.Cache[CacheKey'[t]].id]
                    /\ MCachedPrograms'.Cache[CacheKey'[t]].State = BS_InProgress
                    /\ MCachedPrograms'.Cache[CacheKey'[t]].Ptr = nullptr
                    /\ MCachedPrograms'.Cache[CacheKey'[t]].Error = [Msg |-> "", Code |-> 0]]_vars

\* After a reset(), the key that had Failed has a new entry, built and Done.
C10_Witness ==
    \E K \in DOMAIN MCachedPrograms.Cache :
        /\ PreviouslyFailed(K)
        /\ MCachedPrograms.Cache[K].State = BS_Done
        /\ MCachedPrograms.Cache[K].id = epoch
        /\ epoch > 0

\* C11: reset() clears the three maps while it holds the mutexes: a reset()
\* step happens only when no thread is inside the critical section of
\* getOrInsertProgram (owner of MProgramCacheMutex), so that no
\* getOrInsertProgram sees the map change between its emplace and its
\* KeyMap insertion.
C11_ResetUnderMutexes ==
    [][epoch' # epoch =>
          /\ MProgramCacheMutex = Unlocked
          /\ \A t \in Threads : pc[t] # "emplaced"]_vars

\* The dispatcher has returned the build of the entry thread t's pointer denotes
BuildReturned(t) ==
    \E w \in WinnerOf(t) :
        pc[w] \in {"publish", "publish_ptr", "publish_state", "publish_notify", "done"}

\* The build of a key other than thread t's is in progress in the dispatcher
OtherKeyBuilding(t) ==
    \E u \in Threads : CacheKey[u] # CacheKey[t] /\ pc[u] = "building"

\* C12: while the build of another key B is in progress in the dispatcher
\* (it may never return), every thread inside get_or_build_program(A), the
\* winner and the waiters, ends its call once the dispatcher has returned
\* A's build.
C12_Independence ==
    \A t \in Threads :
        (/\ pc[t] \notin {"idle", "done"}
         /\ BuildReturned(t)
         /\ OtherKeyBuilding(t))
            ~> (pc[t] = "done")

\* The winner and a waiter of one key have ended while the build of the
\* other key is still in the dispatcher.
C12_Witness ==
    \E t, w, u \in Threads :
        /\ t # w
        /\ CacheKey[t] = CacheKey[w]
        /\ pc[t] = "done" /\ pc[w] = "done"
        /\ InsertionTookPlace[w] /\ ~InsertionTookPlace[t]
        /\ CacheKey[u] # CacheKey[t] /\ pc[u] = "building"

\* The mutexes of the cache thread t owns: the program cache's and the entries'
HeldBy(t) ==
    (IF MProgramCacheMutex = t THEN {"MProgramCacheMutex"} ELSE {})
        \cup {K \in DOMAIN MCachedPrograms.Cache :
                 MCachedPrograms.Cache[K].MBuildResultMutex = t}

\* C13: a thread that is about to call, or is inside, the backend dispatcher's
\* build_program owns no mutex of the cache: getOrInsertProgram released the
\* program cache's mutex before it returned, and no entry mutex is taken
\* before the build has returned.
C13_NoMutexAcrossBuild ==
    \A t \in Threads : pc[t] \in {"build", "building"} => HeldBy(t) = {}

\* A thread is inside the dispatcher while another thread is inside the
\* critical section of getOrInsertProgram.
C13_Witness ==
    \E t, u \in Threads :
        /\ pc[t] = "building" /\ HeldBy(t) = {}
        /\ pc[u] = "emplaced" /\ MProgramCacheMutex = u

\* C14: only threads that got was_freshly_inserted = false are inside
\* waitUntilBuilt; the winner is never held up by its own entry: its
\* getOrInsertProgram returns, and once the dispatcher has returned its build
\* its publish runs to the end of the call; every getOrInsertProgram returns.
\* (A waiter may stay blocked for as long as the build is in the dispatcher.)
C14_WinnerNeverBlocks ==
    /\ [](\A t \in Threads : InWait(t) => ~InsertionTookPlace[t])
    /\ \A t \in Threads :
          (pc[t] = "emplaced") ~> (pc[t] \in {"build", "wait"})
    /\ \A t \in Threads :
          (/\ InsertionTookPlace[t]
           /\ pc[t] \in {"publish", "publish_ptr", "publish_state", "publish_notify"})
              ~> (pc[t] = "done")

\* A waiter sleeps on the entry whose winner is inside the dispatcher.
C14_Witness ==
    \E t, w \in Threads :
        /\ pc[t] = "sleeping" /\ ~InsertionTookPlace[t]
        /\ pc[w] = "building" /\ InsertionTookPlace[w]
        /\ BuildResultPtr[w] = BuildResultPtr[t]

\* C15: saveKernel calls with one fast-cache key leave the value of the first
\* insertion: a key of the fast cache keeps its value in every step, a
\* saveKernel for an absent key stores its CacheVal, one for a present key
\* stores nothing, and a tryToGetKernelFast of a present key returns the value
\* stored first.
C15_FirstSaveKept ==
    [][/\ \A K \in DOMAIN MKernelFastCache :
             /\ K \in DOMAIN MKernelFastCache'
             /\ MKernelFastCache'[K] = MKernelFastCache[K]
       /\ \A t \in FastThreads :
             (fastpc[t] = "save" /\ fastpc'[t] = "saved") =>
                 /\ FastCacheKey[t] \in DOMAIN MKernelFastCache'
                 /\ FastCacheKey[t] \notin DOMAIN MKernelFastCache =>
                       /\ MKernelFastCache'[FastCacheKey[t]] = FastCacheVal[t]
                       /\ DOMAIN MKernelFastCache' = DOMAIN MKernelFastCache \cup {FastCacheKey[t]}
                 /\ FastCacheKey[t] \in DOMAIN MKernelFastCache =>
                       MKernelFastCache' = MKernelFastCache
       /\ \A t \in FastThreads :
             (/\ fastpc[t] = "find" /\ fastpc'[t] = "got"
              /\ FastCacheKey[t] \in DOMAIN MKernelFastCache) =>
                 FastRet'[t] = MKernelFastCache[FastCacheKey[t]]]_vars

\* Two saveKernel calls with one key and different values have returned, the
\* cache holds one of the two values, and a later tryToGetKernelFast returned it.
C15_Witness ==
    \E t, u, v \in FastThreads :
        /\ fastpc[t] = "saved" /\ fastpc[u] = "saved" /\ fastpc[v] = "got"
        /\ FastCacheKey[t] = FastCacheKey[u] /\ FastCacheKey[v] = FastCacheKey[t]
        /\ FastCacheVal[t] # FastCacheVal[u]
        /\ MKernelFastCache[FastCacheKey[t]] = FastCacheVal[t]
        /\ FastRet[v] = FastCacheVal[t]
        /\ t < u /\ u < v

\* C16: tryToGetKernelFast returns the stored tuple when the key is in the
\* fast cache and the tuple of four null pointers when it is not; the call
\* always ends with one of the two (there is no failure), and no step of the
\* call changes MKernelFastCache.
C16_TryGetPure ==
    [][\A t \in FastThreads :
          /\ (fastpc[t] = "idle" /\ fastpc'[t] = "find") =>
                MKernelFastCache' = MKernelFastCache
          /\ (fastpc[t] = "find" /\ fastpc'[t] # "find") =>
                /\ fastpc'[t] = "got"
                /\ MKernelFastCache' = MKernelFastCache
                /\ FastCacheKey[t] \in DOMAIN MKernelFastCache =>
                      FastRet'[t] = MKernelFastCache[FastCacheKey[t]]
                /\ FastCacheKey[t] \notin DOMAIN MKernelFastCache =>
                      FastRet'[t] = <<nullptr, nullptr, nullptr, nullptr>>]_vars

\* One tryToGetKernelFast has returned a stored tuple and another, for a key
\* that is not in the cache, the four null pointers.
C16_Witness ==
    \E t, u \in FastThreads :
        /\ fastpc[t] = "got" /\ fastpc[u] = "got"
        /\ FastCacheKey[t] \in DOMAIN MKernelFastCache
        /\ FastRet[t] = MKernelFastCache[FastCacheKey[t]]
        /\ FastRet[t] \in FastVals
        /\ FastCacheKey[u] \notin DOMAIN MKernelFastCache
        /\ FastRet[u] = AbsentFastVal

\* Two program keys with the same module bytes, module identity and device,
\* and different build options
OptionVariants(K, L) ==
    /\ K[1] = L[1]
    /\ K[2][1] = L[2][1]
    /\ K[2][2] # L[2][2]

\* The thread is inside publish_success or publish_failure, or at its call
InPublish(t) ==
    pc[t] \in {"publish", "publish_ptr", "publish_state", "publish_notify"}

\* C17: program keys that differ only in the build options are two entries:
\* for each of them one getOrInsertProgram returns was_freshly_inserted =
\* true, also when the other is cached already, and neither the insertion nor
\* the publishing of one changes the other's entry.
C17_OptionsDistinguish ==
    /\ [](\A K \in ProgramKeys :
             Cardinality({t \in Returned(K) : InsertionTookPlace[t]}) <= 1)
    /\ [][\A K, L \in ProgramKeys :
             (OptionVariants(K, L) /\ L \in DOMAIN MCachedPrograms.Cache) =>
                 \A t \in Threads :
                     /\ (/\ pc[t] = "idle" /\ pc'[t] = "emplaced" /\ CacheKey'[t] = K
                         /\ K \notin DOMAIN MCachedPrograms.Cache) =>
                            /\ InsertionTookPlace'[t]
                            /\ DOMAIN MCachedPrograms'.Cache = DOMAIN MCachedPrograms.Cache \cup {K}
                            /\ MCachedPrograms'.Cache[L] = MCachedPrograms.Cache[L]
                     /\ (InPublish(t) /\ pc'[t] # pc[t] /\ CacheKey[t] = K) =>
                            MCachedPrograms'.Cache[L] = MCachedPrograms.Cache[L]]_vars

\* Both option variants are cached, each with a winner; one is Done and the
\* other still InProgress.
C17_Witness ==
    \E K, L \in ProgramKeys :
        /\ OptionVariants(K, L)
        /\ K \in DOMAIN MCachedPrograms.Cache /\ L \in DOMAIN MCachedPrograms.Cache
        /\ MCachedPrograms.Cache[K].State = BS_Done
        /\ MCachedPrograms.Cache[L].State = BS_InProgress
        /\ \E t, u \in Threads :
              /\ CacheKey[t] = K /\ InsertionTookPlace[t] /\ pc[t] = "done"
              /\ CacheKey[u] = L /\ InsertionTookPlace[u]

\* The common keys of the program keys, and one no program key has
CommonKeys == {<<K[1][2], K[2][1]>> : K \in ProgramKeys} \cup {<<1, "D1">>}

\* C18: whenever no getOrInsertProgram is inside its critical section, KeyMap
\* holds exactly one pair ((module identity, device) of K, K) for each key K
\* of Cache and nothing else, and lookup_by_common_key(C) gives exactly the
\* cached keys whose (module identity, device) is C, each once.
C18_KeyMapExact ==
    MProgramCacheMutex = Unlocked =>
        /\ BagToSet(MCachedPrograms.KeyMap) =
              {<< <<K[1][2], K[2][1]>>, K >> : K \in DOMAIN MCachedPrograms.Cache}
        /\ \A p \in BagToSet(MCachedPrograms.KeyMap) :
              CopiesIn(p, MCachedPrograms.KeyMap) = 1
        /\ \A C \in CommonKeys :
              lookup_by_common_key(C) =
                  [K \in {L \in DOMAIN MCachedPrograms.Cache : <<L[1][2], L[2][1]>> = C} |-> 1]

\* Both keys are cached, three getOrInsertProgram calls have returned (two of
\* them with one key), and the lookup by their common key gives the two keys.
C18_Witness ==
    /\ MProgramCacheMutex = Unlocked
    /\ DOMAIN MCachedPrograms.Cache = ProgramKeys
    /\ \A t \in Threads : pc[t] \notin {"idle", "emplaced"}
    /\ \E C \in CommonKeys : DOMAIN lookup_by_common_key(C) = ProgramKeys

StateOf(t) == MCachedPrograms.Cache[CacheKey[t]].State

\* C21: waitUntilBuilt returns only when the entry's state is Done or Failed:
\* a thread past the wait, or back from waitUntilBuilt, sees a state other
\* than InProgress; a waiter woken while the state is InProgress goes back to
\* the wait; so a waiter does not return for as long as nothing is published.
C21_ReturnsOnlyWhenBuilt ==
    /\ [](\A t \in Threads :
             (pc[t] = "built" \/ (pc[t] = "done" /\ ~InsertionTookPlace[t]))
                 => StateOf(t) \in {BS_Done, BS_Failed})
    /\ [][\A t \in Threads :
             (/\ pc[t] \in {"wait", "woken"} /\ pc'[t] # pc[t]
              /\ StateOf(t) = BS_InProgress)
                 => pc'[t] = "blocking"]_vars

\* A waiter has been woken with the state still InProgress, the winner's
\* build still in the dispatcher.
C21_Witness ==
    \E t, w \in Threads :
        /\ pc[t] = "woken" /\ StateOf(t) = BS_InProgress
        /\ pc[w] = "building" /\ BuildResultPtr[w] = BuildResultPtr[t]

C23_NormalReturnNonNull ==
    \A t \in Threads :
        (pc[t] = "done" /\ ~InsertionTookPlace[t] /\ ret[t].kind # "failed") =>
            /\ ret[t].kind = "handle"
            /\ \A w \in WinnerOf(t) : pc[w] = "done" => ret[t].h = ret[w].h

C25_ExistingKeyUntouched ==
    [][/\ \A t \in Threads :
             /\ (/\ pc[t] = "idle" /\ pc'[t] = "emplaced"
                 /\ CacheKey'[t] \in DOMAIN MCachedPrograms.Cache) =>
                    /\ MCachedPrograms' = MCachedPrograms
                    /\ ~InsertionTookPlace'[t]
                    /\ BuildResultPtr'[t] =
                          [key |-> CacheKey'[t],
                           id |-> MCachedPrograms.Cache[CacheKey'[t]].id]
             /\ (pc[t] = "emplaced" /\ pc'[t] # "emplaced" /\ ~InsertionTookPlace[t]) =>
                    MCachedPrograms' = MCachedPrograms
       /\ \A t \in KernelThreads :
             /\ (/\ kernelpc[t] = "idle" /\ kernelpc'[t] = "emplaced"
                 /\ KProgram'[t] \in DOMAIN MKernelsPerProgramCache
                 /\ KName'[t] \in DOMAIN MKernelsPerProgramCache[KProgram'[t]]) =>
                    /\ MKernelsPerProgramCache' = MKernelsPerProgramCache
                    /\ ~KernelInserted'[t]
                    /\ KernelResultPtr'[t] =
                          [key |-> <<KProgram'[t], KName'[t]>>,
                           id |-> MKernelsPerProgramCache[KProgram'[t]][KName'[t]].id]
             /\ (kernelpc[t] = "emplaced" /\ kernelpc'[t] # "emplaced") =>
                    MKernelsPerProgramCache' = MKernelsPerProgramCache]_vars

\* A getOrInsertKernel has returned false for an entry that was Done, and the
\* entry is still Done.
C25_Witness ==
    \E t, w \in KernelThreads :
        /\ kernelpc[t] = "wait" /\ ~KernelInserted[t]
        /\ kernelpc[w] = "done" /\ KernelInserted[w]
        /\ KernelResultPtr[t] = KernelResultPtr[w]
        /\ KernelDeref(KernelResultPtr[t]).State = BS_Done
        /\ KernelDeref(KernelResultPtr[t]).Ptr # nullptr

\* A BuildResult as its constructor leaves it: InProgress, Ptr null, message
\* empty and code 0
FreshEntry(BR) ==
    /\ BR.State = BS_InProgress
    /\ BR.Ptr = nullptr
    /\ BR.Error.Msg = ""
    /\ BR.Error.Code = 0

\* C26: the entry a getOrInsertProgram or getOrInsertKernel inserts (the key
\* was absent) is, when the insertion is done, in state InProgress with a
\* null Ptr and an empty error.
C26_FreshEntryInProgress ==
    [][/\ \A t \in Threads :
             (/\ pc[t] = "idle" /\ pc'[t] = "emplaced"
              /\ CacheKey'[t] \notin DOMAIN MCachedPrograms.Cache) =>
                 /\ CacheKey'[t] \in DOMAIN MCachedPrograms'.Cache
                 /\ FreshEntry(MCachedPrograms'.Cache[CacheKey'[t]])
       /\ \A t \in KernelThreads :
             (/\ kernelpc[t] = "idle" /\ kernelpc'[t] = "emplaced"
              /\ KName'[t] \notin DOMAIN KernelByName(KProgram'[t])) =>
                 /\ KProgram'[t] \in DOMAIN MKernelsPerProgramCache'
                 /\ KName'[t] \in DOMAIN MKernelsPerProgramCache'[KProgram'[t]]
                 /\ FreshEntry(MKernelsPerProgramCache'[KProgram'[t]][KName'[t]])]_vars

\* A getOrInsertProgram has just inserted an entry while the entry of the
\* other key is already Done.
C26_Witness ==
    \E t \in Threads, L \in DOMAIN MCachedPrograms.Cache :
        /\ pc[t] = "emplaced" /\ InsertionTookPlace[t]
        /\ FreshEntry(MCachedPrograms.Cache[CacheKey[t]])
        /\ L # CacheKey[t]
        /\ MCachedPrograms.Cache[L].State = BS_Done

\* The threads whose getOrInsertKernel(P, N) has returned
KernelReturned(P, N) ==
    {t \in KernelThreads :
        KProgram[t] = P /\ KName[t] = N /\ kernelpc[t] \notin {"idle", "emplaced"}}

\* C27: of the getOrInsertKernel calls for one pair (program, kernel name)
\* that have returned exactly one returned was_freshly_inserted = true; the
\* first request for a program makes that program's map, with the one kernel
\* name in it; and no step for one program changes the entries of another
\* program, also for the same kernel name.
C27_KernelPerProgram ==
    /\ [](\A P \in Handles, N \in KernelNames :
             KernelReturned(P, N) # {} =>
                 Cardinality({t \in KernelReturned(P, N) : KernelInserted[t]}) = 1)
    /\ [][\A t \in KernelThreads :
             /\ (/\ kernelpc[t] = "idle" /\ kernelpc'[t] = "emplaced"
                 /\ KProgram'[t] \notin DOMAIN MKernelsPerProgramCache) =>
                    /\ DOMAIN MKernelsPerProgramCache' =
                          DOMAIN MKernelsPerProgramCache \cup {KProgram'[t]}
                    /\ DOMAIN MKernelsPerProgramCache'[KProgram'[t]] = {KName'[t]}
                    /\ KernelInserted'[t]
             /\ kernelpc'[t] # kernelpc[t] =>
                    \A Q \in DOMAIN MKernelsPerProgramCache :
                        Q # KProgram'[t] =>
                            /\ Q \in DOMAIN MKernelsPerProgramCache'
                            /\ MKernelsPerProgramCache'[Q] = MKernelsPerProgramCache[Q]]_vars

\* The same kernel name has an entry under two programs, each with its own
\* winner; one entry is Done, the other InProgress, and a third call got false.
C27_Witness ==
    \E t, u, v \in KernelThreads :
        /\ KProgram[t] # KProgram[u] /\ KName[t] = KName[u]
        /\ KernelInserted[t] /\ KernelInserted[u]
        /\ kernelpc[t] = "done" /\ kernelpc[u] = "build"
        /\ KernelDeref(KernelResultPtr[t]).State = BS_Done
        /\ KernelDeref(KernelResultPtr[u]).State = BS_InProgress
        /\ kernelpc[v] \in {"wait", "done"} /\ ~KernelInserted[v]

SavedFast(K) ==
    \E t \in FastThreads : fastpc[t] = "saved" /\ FastCacheKey[t] = K

\* C29: until reset() is called, a key saved in the fast cache stays there
\* with its value, and a tryToGetKernelFast that runs after a saveKernel for
\* its key has completed returns the stored value, a value some completed
\* saveKernel gave for the key, and never the four null pointers.
C29_SavedThenFound ==
    [][/\ epoch' = epoch =>
             \A K \in DOMAIN MKernelFastCache :
                /\ K \in DOMAIN MKernelFastCache'
                /\ MKernelFastCache'[K] = MKernelFastCache[K]
       /\ \A u \in FastThreads :
             (/\ fastpc[u] = "find" /\ fastpc'[u] = "got"
              /\ epoch = 0
              /\ SavedFast(FastCacheKey[u])) =>
                 /\ FastRet'[u] # AbsentFastVal
                 /\ FastCacheKey[u] \in DOMAIN MKernelFastCache
                 /\ FastRet'[u] = MKernelFastCache[FastCacheKey[u]]
                 /\ \E t \in FastThreads :
                       /\ fastpc[t] = "saved"
                       /\ FastCacheKey[t] = FastCacheKey[u]
                       /\ FastCacheVal[t] = FastRet'[u]]_vars

\* Before any reset(), two tryToGetKernelFast calls for a key have returned
\* after the saveKernel for it, both with the saved value.
C29_Witness ==
    \E t, u, v \in FastThreads :
        /\ epoch = 0
        /\ t < u /\ u < v
        /\ fastpc[t] = "saved" /\ fastpc[u] = "got" /\ fastpc[v] = "got"
        /\ FastCacheKey[u] = FastCacheKey[t] /\ FastCacheKey[v] = FastCacheKey[t]
        /\ FastRet[u] = FastCacheVal[t] /\ FastRet[v] = FastCacheVal[t]
        /\ FastRet[u] # AbsentFastVal

\* After reset(), a tryToGetKernelFast for a key saved before it has returned
\* the four null pointers.
C29_AfterReset ==
    \E t, u \in FastThreads :
        /\ epoch = 1
        /\ fastpc[t] = "saved" /\ fastpc[u] = "got"
        /\ FastCacheKey[u] = FastCacheKey[t]
        /\ FastRet[u] = AbsentFastVal
        /\ MKernelFastCache = <<>>

\* The (program, kernel name) pairs of the kernels-per-program cache
KernelKeys(Kernels) ==
    {PN \in Handles \X KernelNames :
        PN[1] \in DOMAIN Kernels /\ PN[2] \in DOMAIN Kernels[PN[1]]}

\* C30: no step but reset() removes a key of the program cache, of its
\* common-key map, of the kernels-per-program cache (a program or a kernel
\* name of a program) or of the fast cache, and a reset() step leaves all of
\* them empty.
C30_KeysOnlyGrow ==
    [][/\ epoch' = epoch =>
             /\ DOMAIN MCachedPrograms.Cache \subseteq DOMAIN MCachedPrograms'.Cache
             /\ MCachedPrograms.KeyMap \sqsubseteq MCachedPrograms'.KeyMap
             /\ DOMAIN MKernelsPerProgramCache \subseteq DOMAIN MKernelsPerProgramCache'
             /\ KernelKeys(MKernelsPerProgramCache) \subseteq KernelKeys(MKernelsPerProgramCache')
             /\ DOMAIN MKernelFastCache \subseteq DOMAIN MKernelFastCache'
       /\ epoch' # epoch =>
             /\ DOMAIN MCachedPrograms'.Cache = {}
             /\ MCachedPrograms'.KeyMap = EmptyBag
             /\ DOMAIN MKernelsPerProgramCache' = {}
             /\ DOMAIN MKernelFastCache' = {}]_vars

\* Both program keys, a kernel and a fast-cache entry are cached, with no
\* reset() so far ...
C30_Witness ==
    /\ epoch = 0
    /\ DOMAIN MCachedPrograms.Cache = ProgramKeys
    /\ KernelKeys(MKernelsPerProgramCache) # {}
    /\ DOMAIN MKernelFastCache # {}

\* ... and after a reset() entries are cached again.
C30_AfterReset ==
    /\ epoch = 1
    /\ DOMAIN MCachedPrograms.Cache # {}
    /\ KernelKeys(MKernelsPerProgramCache) # {}
    /\ DOMAIN MKernelFastCache # {}

\* C31: also with reset() running beside the builds, at most one build of a
\* program key is in flight (from the call of build_program to the end of its
\* publishing), and no thread that is publishing to, or waiting on, an entry
\* holds a pointer to an entry reset() has removed.
C31_SingleBuildAcrossReset ==
    /\ \A K \in ProgramKeys :
          Cardinality({t \in Threads :
                          /\ CacheKey[t] = K
                          /\ InsertionTookPlace[t]
                          /\ (pc[t] \in {"build", "building"} \/ InPublish(t))}) <= 1
    /\ \A t \in Threads : UsesEntry(t) => Valid(BuildResultPtr[t])

\* C32: with no reset(), the getOrInsertProgram calls for one key hold one and
\* the same BuildResult*, as do the getOrInsertKernel calls for one (program,
\* kernel name); every pointer handed out denotes an entry of the cache, and
\* no step, the insertion of other keys included, changes the identity of the
\* node of a key already cached.
C32_OneStableEntry ==
    /\ [](/\ \A t, u \in Threads :
                (pc[t] # "idle" /\ pc[u] # "idle" /\ CacheKey[t] = CacheKey[u]) =>
                    BuildResultPtr[t] = BuildResultPtr[u]
          /\ \A t \in Threads :
                pc[t] # "idle" =>
                    /\ Valid(BuildResultPtr[t])
                    /\ BuildResultPtr[t].key = CacheKey[t]
          /\ \A t, u \in KernelThreads :
                (/\ kernelpc[t] # "idle" /\ kernelpc[u] # "idle"
                 /\ KProgram[t] = KProgram[u] /\ KName[t] = KName[u]) =>
                    KernelResultPtr[t] = KernelResultPtr[u]
          /\ \A t \in KernelThreads :
                kernelpc[t] # "idle" =>
                    /\ KernelValid(KernelResultPtr[t])
                    /\ KernelResultPtr[t].key = <<KProgram[t], KName[t]>>)
    /\ [][/\ \A K \in DOMAIN MCachedPrograms.Cache :
                /\ K \in DOMAIN MCachedPrograms'.Cache
                /\ MCachedPrograms'.Cache[K].id = MCachedPrograms.Cache[K].id
          /\ \A PN \in KernelKeys(MKernelsPerProgramCache) :
                /\ PN \in KernelKeys(MKernelsPerProgramCache')
                /\ MKernelsPerProgramCache'[PN[1]][PN[2]].id =
                      MKernelsPerProgramCache[PN[1]][PN[2]].id
          /\ \A t \in Threads : pc[t] # "idle" => BuildResultPtr'[t] = BuildResultPtr[t]
          /\ \A t \in KernelThreads :
                kernelpc[t] # "idle" => KernelResultPtr'[t] = KernelResultPtr[t]]_vars

\* Two getOrInsertProgram calls for one key hold the same pointer, the second
\* having found the entry, and a later call has inserted the other key.
C32_Witness ==
    \E t, u, v \in Threads :
        /\ t < u /\ u < v
        /\ pc[t] # "idle" /\ pc[u] # "idle" /\ pc[v] \notin {"idle", "emplaced"}
        /\ CacheKey[t] = CacheKey[u] /\ CacheKey[v] # CacheKey[t]
        /\ InsertionTookPlace[t] /\ ~InsertionTookPlace[u] /\ InsertionTookPlace[v]
        /\ BuildResultPtr[t] = BuildResultPtr[u]
        /\ Valid(BuildResultPtr[t]) /\ Valid(BuildResultPtr[v])

\* The same for getOrInsertKernel: two calls for one (program, kernel name),
\* and a later call for another program.
C32_KernelWitness ==
    \E t, u, v \in KernelThreads :
        /\ t < u /\ u < v
        /\ kernelpc[t] # "idle" /\ kernelpc[u] # "idle"
        /\ kernelpc[v] \notin {"idle", "emplaced"}
        /\ KProgram[t] = KProgram[u] /\ KName[t] = KName[u] /\ KProgram[v] # KProgram[t]
        /\ KernelInserted[t] /\ ~KernelInserted[u] /\ KernelInserted[v]
        /\ KernelResultPtr[t] = KernelResultPtr[u]
        /\ KernelValid(KernelResultPtr[t]) /\ KernelValid(KernelResultPtr[v])

\* The subcache mutexes thread t owns
SubcacheMutexesOf(t) ==
    (IF MProgramCacheMutex = t THEN {"MProgramCacheMutex"} ELSE {})
       \cup (IF MKernelsPerProgramCacheMutex = t THEN {"MKernelsPerProgramCacheMutex"} ELSE {})
       \cup (IF MKernelFastCacheMutex = t THEN {"MKernelFastCacheMutex"} ELSE {})

\* The entry mutexes thread t owns
EntryMutexesOf(t) ==
    {K \in DOMAIN MCachedPrograms.Cache : MCachedPrograms.Cache[K].MBuildResultMutex = t}

\* One step of thread t in the operation it is in
StepOf(t) ==
    \/ get_or_build_program(t)
    \/ get_or_build_kernel(t)
    \/ saveKernel_emplace(t)
    \/ tryToGetKernelFast_find(t)

C33_KernelWitness ==
    \E t \in KernelThreads : SubcacheMutexesOf(t) = {"MKernelsPerProgramCacheMutex"}

\* A thread owns the fast cache's mutex while another is about to take it
C33_FastWitness ==
    \E t, u \in FastThreads :
        /\ SubcacheMutexesOf(t) = {"MKernelFastCacheMutex"}
        /\ fastpc[u] = "idle"

\* C34: PiPlatforms has no duplicates and the length of LastDeviceIds; no call
\* moves or removes a platform of PiPlatforms (its index never changes); and
\* getPlatformId(Platform) returns the index at which Platform is, after
\* appending it, and it alone, when it was not there.
C34_PlatformIndex ==
    /\ [](/\ Len(PiPlatforms) = Len(LastDeviceIds)
          /\ \A i, j \in 1..Len(PiPlatforms) : PiPlatforms[i] = PiPlatforms[j] => i = j)
    /\ [][/\ Len(PiPlatforms') >= Len(PiPlatforms)
          /\ \A i \in 1..Len(PiPlatforms) : PiPlatforms'[i] = PiPlatforms[i]
          /\ platformCall'.op = "getPlatformId" =>
                LET Platform == platformCall'.Platform
                    Known == \E i \in 1..Len(PiPlatforms) : PiPlatforms[i] = Platform
                IN /\ platformCall'.ret \in 0..(Len(PiPlatforms') - 1)
                   /\ At(PiPlatforms', platformCall'.ret) = Platform
                   /\ Known => PiPlatforms' = PiPlatforms /\ LastDeviceIds' = LastDeviceIds
                   /\ ~Known => /\ PiPlatforms' = Append(PiPlatforms, Platform)
                                /\ LastDeviceIds' = Append(LastDeviceIds, 0)
                                /\ platformCall'.ret = Len(PiPlatforms)]_vars

\* After calls that registered every platform and set a last device id,
\* getPlatformId has returned the index 1 of a platform registered before.
C34_Witness ==
    /\ Len(PiPlatforms) = NumPlatforms
    /\ \E i \in 1..Len(LastDeviceIds) : LastDeviceIds[i] # 0
    /\ platformCall.op = "getPlatformId"
    /\ platformCall.ret = 1
    /\ At(PiPlatforms, 1) = platformCall.Platform

\* The platforms in PiPlatforms
Registered == {PiPlatforms[i] : i \in 1..Len(PiPlatforms)}

\* The position of a registered platform in PiPlatforms, from 1
PositionOf(Vec, Platform) == CHOOSE i \in 1..Len(Vec) : Vec[i] = Platform

\* What getStartingDeviceId is to return for a registered platform: 0 for the
\* first, the last device id of the one before it for the others
StartOf(Vec, Ids, Platform) ==
    IF PositionOf(Vec, Platform) = 1 THEN 0 ELSE Ids[PositionOf(Vec, Platform) - 1]

\* getStartingDeviceId returns 0 for the platform at index 0 and the last
\* device id recorded for the predecessor platform for the others
StartReturned ==
    platformCall'.op = "getStartingDeviceId" =>
        /\ platformCall'.Platform \in {PiPlatforms'[i] : i \in 1..Len(PiPlatforms')}
        /\ platformCall'.ret = StartOf(PiPlatforms', LastDeviceIds', platformCall'.Platform)

C36_AdjustRaisesOnly ==
    [][platformCall'.op = "adjustLastDeviceId" =>
          LET P == platformCall'.Platform
              Known == P \in Registered
              i == PositionOf(PiPlatforms', P)
              Old == IF Known THEN LastDeviceIds[i] ELSE 0
          IN /\ P \in {PiPlatforms'[j] : j \in 1..Len(PiPlatforms')}
             /\ i > 1 => /\ LastDeviceIds'[i] >= LastDeviceIds'[i - 1]
                         /\ LastDeviceIds'[i] \in {Old, LastDeviceIds[i - 1]}
             /\ LastDeviceIds'[i] >= Old
             /\ \A j \in 1..Len(LastDeviceIds) :
                   j # i => LastDeviceIds'[j] = LastDeviceIds[j]
             /\ i = 1 => /\ LastDeviceIds'[1] = Old
                         /\ Known => /\ PiPlatforms' = PiPlatforms
                                     /\ LastDeviceIds' = LastDeviceIds]_vars

\* adjustLastDeviceId has raised the last device id of a platform to its
\* predecessor's, while a third platform has a larger last device id than the
\* one before it.
C36_Witness ==
    /\ platformCall.op = "adjustLastDeviceId"
    /\ platformCall.Platform \in Registered
    /\ LET i == PositionOf(PiPlatforms, platformCall.Platform) IN
       /\ i > 1
       /\ LastDeviceIds[i] = LastDeviceIds[i - 1]
       /\ LastDeviceIds[i] # 0
    /\ \E j \in 2..Len(LastDeviceIds) : LastDeviceIds[j] > LastDeviceIds[j - 1]

\* adjustLastDeviceId has left alone a last device id larger than the
\* predecessor's, and one of the platform at index 0.
C36_Untouched ==
    /\ platformCall.op = "adjustLastDeviceId"
    /\ platformCall.Platform \in Registered
    /\ LET i == PositionOf(PiPlatforms, platformCall.Platform) IN
       \/ i > 1 /\ LastDeviceIds[i] > LastDeviceIds[i - 1]
       \/ i = 1 /\ LastDeviceIds[1] # 0

=============================================================================
